---- MODULE Spec2Model ----
(***************************************************************************)
(* Model of reaper-regions: recovery of REAPER markers and regions from    *)
(* the 'cue ', 'labl', 'LIST' and 'smpl' chunks of a WAV file              *)
(* (src/src/lib.rs).                                                       *)
(*                                                                         *)
(* Conventions.  A byte is a number in 0..255 and a payload a sequence of  *)
(* bytes; Rust's 0-based offset k is element k+1.  Option<T> is a sequence *)
(* of length 0 (None) or 1 (Some).  A HashMap is a function whose domain   *)
(* is its key set.  A String is the sequence of its code points.  An f64   *)
(* is an IEEE 754 binary64 value, a record of class, sign, exponent and    *)
(* 53-digit significand, and its arithmetic rounds to nearest, ties to     *)
(* even, as the hardware does.                                             *)
(***************************************************************************)
EXTENDS Integers, Sequences, FiniteSets, TLC

VARIABLES
    file_path,      \* argument of parse_markers_from_file
    chunks,         \* riff_file.chunks: the chunk list of the file read
    pc,             \* position in parse_markers_from_file
    sample_rate,    \* local sample_rate
    labels,         \* local labels (Vec<Label>)
    sampler_data,   \* local sampler_data (Option<Vec<SampleLoop>>)
    cue_points,     \* local cue_points (Option<HashMap<u32,u32>>)
    result,         \* local result (WavData)
    outcome,        \* what parse_markers_from_file returned: Running, Ok, Err
    error,          \* the ParseError returned when outcome = "Err"
    args,           \* arguments of a function called on its own
    ret,            \* Option: what that call returned
    ret2            \* Option: what a second call on the same arguments returned

vars == <<file_path, chunks, pc, sample_rate, labels, sampler_data,
          cue_points, result, outcome, error, args, ret, ret2>>

parse_vars == <<file_path, chunks, pc, sample_rate, labels, sampler_data,
                cue_points, result, outcome, error>>
call_vars == <<args, ret, ret2>>

----------------------------------------------------------------------------
(* Option<T> *)

None == <<>>
Some(x) == <<x>>
IsSome(o) == o # <<>>
Unwrap(o) == o[1]

----------------------------------------------------------------------------
(* Bytes and little-endian integers *)

\* u32::from_le_bytes(data[off..off + 4])
U32LE(data, off) ==
    data[off + 1] + 256 * data[off + 2] + 65536 * data[off + 3]
        + 16777216 * data[off + 4]

\* data[from..to] (0-based, to exclusive)
Slice(data, from, to) == SubSeq(data, from + 1, to)

\* The bytes of the chunk tags compared in lib.rs
TagAdtl == <<97, 100, 116, 108>>
TagLabl == <<108, 97, 98, 108>>

\* A UTF-8 continuation byte, and the range the second byte of a sequence
\* must lie in after the lead byte b0 (overlong forms, surrogates and code
\* points above U+10FFFF are excluded by it)
IsCont(b) == b >= 128 /\ b <= 191
SecondLow(b0) == IF b0 = 224 THEN 160 ELSE IF b0 = 240 THEN 144 ELSE 128
SecondHigh(b0) == IF b0 = 237 THEN 159 ELSE IF b0 = 244 THEN 143 ELSE 191

\* The length of the sequence a lead byte announces; 0 for a byte that
\* starts none (0x80..0xC1, 0xF5..0xFF)
SequenceLen(b0) ==
    IF b0 < 128 THEN 1
    ELSE IF b0 >= 194 /\ b0 <= 223 THEN 2
    ELSE IF b0 >= 224 /\ b0 <= 239 THEN 3
    ELSE IF b0 >= 240 /\ b0 <= 244 THEN 4
    ELSE 0

\* String::from_utf8_lossy from byte i (from 1) on: a well-formed sequence
\* is decoded to its code point, and each maximal ill-formed prefix of a
\* sequence is replaced by one U+FFFD
RECURSIVE utf8_lossy_from(_, _)
utf8_lossy_from(bytes, i) ==
    IF i > Len(bytes) THEN <<>>
    ELSE LET b0 == bytes[i]
             n == SequenceLen(b0)
             has(k) == i + k <= Len(bytes)
             ok2 == has(1) /\ bytes[i + 1] >= SecondLow(b0)
                           /\ bytes[i + 1] <= SecondHigh(b0)
             ok3 == has(2) /\ IsCont(bytes[i + 2])
             ok4 == has(3) /\ IsCont(bytes[i + 3])
         IN  IF n = 1 THEN <<b0>> \o utf8_lossy_from(bytes, i + 1)
             ELSE IF n = 0 \/ ~ok2
             THEN <<65533>> \o utf8_lossy_from(bytes, i + 1)
             ELSE IF n = 2
             THEN <<(b0 % 32) * 64 + (bytes[i + 1] % 64)>>
                      \o utf8_lossy_from(bytes, i + 2)
             ELSE IF ~ok3
             THEN <<65533>> \o utf8_lossy_from(bytes, i + 2)
             ELSE IF n = 3
             THEN <<(b0 % 16) * 4096 + (bytes[i + 1] % 64) * 64
                        + (bytes[i + 2] % 64)>>
                      \o utf8_lossy_from(bytes, i + 3)
             ELSE IF ~ok4
             THEN <<65533>> \o utf8_lossy_from(bytes, i + 3)
             ELSE <<(b0 % 8) * 262144 + (bytes[i + 1] % 64) * 4096
                        + (bytes[i + 2] % 64) * 64 + (bytes[i + 3] % 64)>>
                      \o utf8_lossy_from(bytes, i + 4)

\* String::from_utf8_lossy, the string as its code points
from_utf8_lossy(bytes) == utf8_lossy_from(bytes, 1)

\* str::trim_end_matches('\0')
RECURSIVE trim_end_nul(_)
trim_end_nul(s) ==
    IF Len(s) > 0 /\ s[Len(s)] = 0
    THEN trim_end_nul(SubSeq(s, 1, Len(s) - 1))
    ELSE s

----------------------------------------------------------------------------
(* wavtag: the chunk list and the sampler decoder, as the design states     *)
(* them                                                                    *)

\* RiffFile::find_chunk_by_type: the first chunk of the type, if any
find_chunk_by_type(cs, type) ==
    IF \E i \in 1..Len(cs) : cs[i].header = type
    THEN Some(cs[CHOOSE i \in 1..Len(cs) :
                    /\ cs[i].header = type
                    /\ \A j \in 1..(i - 1) : cs[j].header # type])
    ELSE None

\* SamplerChunk::from_chunk: a 36-byte header whose field at offset 28 is the
\* number of loops, then 24-byte loop records with the identifier at record
\* offset 0 and the end offset at record offset 12.  A payload too short for
\* what it declares is an error.
SmplHeaderSize == 36
SmplLoopSize == 24

SamplerChunk_from_chunk(chunk) ==
    LET data == chunk.data IN
    IF Len(data) < SmplHeaderSize THEN [ok |-> FALSE, sample_loops |-> <<>>]
    ELSE LET n == U32LE(data, 28) IN
         IF Len(data) < SmplHeaderSize + n * SmplLoopSize
         THEN [ok |-> FALSE, sample_loops |-> <<>>]
         ELSE [ok |-> TRUE,
               sample_loops |->
                   [i \in 1..n |->
                       LET s == SmplHeaderSize + (i - 1) * SmplLoopSize IN
                       [id |-> U32LE(data, s), end |-> U32LE(data, s + 12)]]]

\* The tags of the container and of the chunk types
TagRiff == <<82, 73, 70, 70>>
TagWave == <<87, 65, 86, 69>>
TagFmt == <<102, 109, 116, 32>>
TagData == <<100, 97, 116, 97>>
TagCue == <<99, 117, 101, 32>>
TagSmpl == <<115, 109, 112, 108>>
TagList == <<76, 73, 83, 84>>

\* ChunkType::from_tag: the chunk type of a tag; an unknown tag is kept
ChunkType_from_tag(tag) ==
    CASE tag = TagFmt -> [header |-> "Format", other_tag |-> <<>>]
      [] tag = TagData -> [header |-> "Data", other_tag |-> <<>>]
      [] tag = TagCue -> [header |-> "Cue", other_tag |-> <<>>]
      [] tag = TagLabl -> [header |-> "Label", other_tag |-> <<>>]
      [] tag = TagSmpl -> [header |-> "Sampler", other_tag |-> <<>>]
      [] tag = TagList -> [header |-> "List", other_tag |-> <<>>]
      [] OTHER -> [header |-> "Other", other_tag |-> tag]

\* ChunkType::to_tag, of the type of a chunk
ChunkType_to_tag(chunk) ==
    CASE chunk.header = "Format" -> TagFmt
      [] chunk.header = "Data" -> TagData
      [] chunk.header = "Cue" -> TagCue
      [] chunk.header = "Label" -> TagLabl
      [] chunk.header = "Sampler" -> TagSmpl
      [] chunk.header = "List" -> TagList
      [] OTHER -> chunk.other_tag

\* RiffFile::read, the chunk loop from byte offset pos on: a tag, a declared
\* size, that many payload bytes and, after an odd size, one pad byte.  It
\* stops at the end of the bytes; a header or a payload that runs past the
\* end is an error.
RECURSIVE walk_chunks(_, _, _)
walk_chunks(bytes, pos, acc) ==
    IF pos >= Len(bytes) THEN [ok |-> TRUE, err |-> <<>>, chunks |-> acc]
    ELSE IF pos + 8 > Len(bytes)
    THEN [ok |-> FALSE, err |-> <<"Io">>, chunks |-> <<>>]
    ELSE LET size == U32LE(bytes, pos + 4)
             type == ChunkType_from_tag(Slice(bytes, pos, pos + 4))
         IN  IF pos + 8 + size > Len(bytes)
             THEN [ok |-> FALSE, err |-> <<"Io">>, chunks |-> <<>>]
             ELSE walk_chunks(bytes, pos + 8 + size + (size % 2),
                    Append(acc,
                           [header |-> type.header,
                            other_tag |-> type.other_tag,
                            data |-> Slice(bytes, pos + 8, pos + 8 + size)]))

\* RiffFile::read: the RIFF tag, the advisory size, the WAVE tag, the chunks
RiffFile_read(bytes) ==
    IF Len(bytes) < 12 THEN [ok |-> FALSE, err |-> <<"Io">>, chunks |-> <<>>]
    ELSE IF Slice(bytes, 0, 4) # TagRiff
    THEN [ok |-> FALSE, err |-> <<"NoRiffTag">>, chunks |-> <<>>]
    ELSE IF Slice(bytes, 8, 12) # TagWave
    THEN [ok |-> FALSE, err |-> <<"NoWaveTag">>, chunks |-> <<>>]
    ELSE walk_chunks(bytes, 12, <<>>)

----------------------------------------------------------------------------
(* Reason and its documentation text (strum::EnumMessage)                  *)

Reasons == {"NoLabels", "NoSamplerData", "NoCuePoints", "NoMarkersMatched"}

\* Reason::get_documentation: the doc comment of the variant
get_documentation(reason) ==
    CASE reason = "NoLabels" ->
            Some("No label chunks were found in the file")
      [] reason = "NoSamplerData" ->
            Some("No 'smpl' (sampler) chunk was found in the file")
      [] reason = "NoCuePoints" ->
            Some("Labels and/or sampler data found but no 'cue ' chunk")
      [] reason = "NoMarkersMatched" ->
            Some("Metadata exists but couldn't be matched into markers")

\* WavData { path, sample_rate, ..WavData::default() }
WavData_new(path, rate) ==
    [path |-> path, sample_rate |-> rate, markers |-> <<>>,
     reason |-> None, reason_text |-> None]

\* set_reason that leaves an explanation already present in place
set_reason_text_kept(data, reason) ==
    [data EXCEPT !.reason = Some(reason),
                 !.reason_text = IF IsSome(data.reason_text)
                                 THEN data.reason_text
                                 ELSE get_documentation(reason)]

\* WavData::set_reason
set_reason(data, reason) ==
    [data EXCEPT !.reason = Some(reason),
                 !.reason_text = get_documentation(reason)]

\* WavData::clear_reason
clear_reason(data) ==
    [data EXCEPT !.reason = None, !.reason_text = None]

----------------------------------------------------------------------------
(* f64: IEEE 754 binary64 values and the operations lib.rs applies to them *)

\* Natural numbers of any size are sequences of digits in base 1024, the
\* least significant digit first; every plain integer stays below 2^31.
Zeros(n) == [i \in 1..n |-> 0]

\* The number of binary digits of n, for 0 <= n < 2^31
BitLen(n) ==
    IF n = 0 THEN 0
    ELSE CHOOSE k \in 1..31 : 2^(k - 1) <= n /\ (k = 31 \/ n < 2^k)

\* n as a digit sequence
RECURSIVE Wide(_)
Wide(n) == IF n = 0 THEN <<>> ELSE <<n % 1024>> \o Wide(n \div 1024)

\* w without its leading zero digits
WideTrim(w) ==
    LET used == {i \in 1..Len(w) : w[i] # 0}
    IN  IF used = {} THEN <<>>
        ELSE SubSeq(w, 1, CHOOSE i \in used : \A j \in used : j <= i)

\* The number of binary digits of w
WideBitLen(w) ==
    LET t == WideTrim(w)
    IN  IF t = <<>> THEN 0 ELSE 10 * (Len(t) - 1) + BitLen(t[Len(t)])

\* Binary digit k of w, digit 0 being the least significant
WideBit(w, k) ==
    IF k < 0 \/ k \div 10 + 1 > Len(w) THEN 0
    ELSE (w[k \div 10 + 1] \div 2^(k % 10)) % 2

\* Whether the k lowest binary digits of w are all zero
WideLowZero(w, k) == \A i \in 0..(k - 1) : WideBit(w, i) = 0

\* w * 2^s
WideShl(w, s) ==
    LET r == s % 10
    IN  Zeros(s \div 10)
            \o [i \in 1..(Len(w) + 1) |->
                    (IF i <= Len(w) THEN (w[i] % 2^(10 - r)) * 2^r ELSE 0)
                        + (IF i > 1 THEN w[i - 1] \div 2^(10 - r) ELSE 0)]

\* w divided by 2^s, rounded down
WideShr(w, s) ==
    LET v == SubSeq(w, s \div 10 + 1, Len(w))
        r == s % 10
    IN  [i \in 1..Len(v) |->
            (v[i] \div 2^r)
                + (IF i < Len(v) THEN (v[i + 1] % 2^r) * 2^(10 - r) ELSE 0)]

\* w * c + carry for c < 2^20
RECURSIVE WideMulSmall(_, _, _)
WideMulSmall(w, c, carry) ==
    IF w = <<>> THEN Wide(carry)
    ELSE <<(w[1] * c + carry) % 1024>>
             \o WideMulSmall(Tail(w), c, (w[1] * c + carry) \div 1024)

\* w + 1
RECURSIVE WideInc(_)
WideInc(w) ==
    IF w = <<>> THEN <<1>>
    ELSE IF w[1] < 1023 THEN <<w[1] + 1>> \o Tail(w)
    ELSE <<0>> \o WideInc(Tail(w))

\* Digit i of w, zero above its length
WideDigit(w, i) == IF i <= Len(w) THEN w[i] ELSE 0

\* a < b
WideLess(a, b) ==
    \E i \in 1..Len(b) :
        /\ WideDigit(a, i) < b[i]
        /\ \A j \in (i + 1)..(IF Len(a) > Len(b) THEN Len(a) ELSE Len(b)) :
               WideDigit(a, j) = WideDigit(b, j)

\* a - b - borrow for a >= b + borrow
RECURSIVE WideSub(_, _, _)
WideSub(a, b, borrow) ==
    IF a = <<>> THEN <<>>
    ELSE <<(a[1] - WideDigit(b, 1) - borrow) % 1024>>
             \o WideSub(Tail(a), IF b = <<>> THEN <<>> ELSE Tail(b),
                        IF a[1] - WideDigit(b, 1) - borrow < 0 THEN 1 ELSE 0)

\* w as a plain integer, for w < 2^31
WideValue(w) ==
    WideDigit(w, 1) + 1024 * WideDigit(w, 2) + 1048576 * WideDigit(w, 3)
        + 1073741824 * WideDigit(w, 4)

\* The quotient and the remainder of rem * 1024 + digit by r, for rem < r
\* < 2^31 and digit < 1024.  A divisor above 2^21 would take the dividend
\* past 2^31: the quotient is then found from its estimate
\* rem \div (r \div 1024), which is the quotient or one more, and checked
\* on the digit sequences.
DivDigit(rem, digit, r) ==
    IF rem = 0 /\ digit < r THEN [quot |-> 0, rem |-> digit]
    ELSE IF BitLen(r) <= 21
    THEN [quot |-> (rem * 1024 + digit) \div r,
          rem |-> (rem * 1024 + digit) % r]
    ELSE LET n == <<digit>> \o Wide(rem)
             most == IF rem \div (r \div 1024) > 1023 THEN 1023
                     ELSE rem \div (r \div 1024)
             q == CHOOSE c \in {most - 1, most} :
                      /\ c >= 0
                      /\ ~WideLess(n, WideMulSmall(Wide(r), c, 0))
                      /\ WideLess(n, WideMulSmall(Wide(r), c + 1, 0))
         IN  [quot |-> q,
              rem |-> WideValue(WideSub(n, WideMulSmall(Wide(r), q, 0), 0))]

\* The quotient and the remainder of w by r, for 0 < r < 2^31
RECURSIVE WideDiv(_, _)
WideDiv(w, r) ==
    IF w = <<>> THEN [quot |-> <<>>, rem |-> 0]
    ELSE LET above == WideDiv(Tail(w), r)
             digit == DivDigit(above.rem, w[1], r)
         IN  [quot |-> <<digit.quot>> \o above.quot, rem |-> digit.rem]

\* A value is a zero, an infinity, a NaN or a finite number
\* mant * 2^(exp - 52) whose significand mant has exactly 53 binary digits,
\* held in six digits of base 1024.  Subnormals and exponent overflow are
\* out of reach of a quotient or a difference of two u32 values and of 1000
\* times such a value.
F64Zero(sign) == [class |-> "zero", sign |-> sign, exp |-> 0, mant |-> <<>>]
F64Inf(sign) == [class |-> "inf", sign |-> sign, exp |-> 0, mant |-> <<>>]
F64NaN == [class |-> "nan", sign |-> 0, exp |-> 0, mant |-> <<>>]
F64Finite(sign, exp, mant) ==
    [class |-> "finite", sign |-> sign, exp |-> exp,
     mant |-> SubSeq(mant \o Zeros(6), 1, 6)]

\* Round to nearest, ties to even: the exact value is sign * w * 2^e for
\* w > 0, plus a nonzero amount below 2^e when sticky (w then has more than
\* 53 binary digits)
RoundNearestEven(sign, w, e, sticky) ==
    LET n == WideBitLen(w)
        kept == WideShr(w, n - 53)
        half == WideBit(w, n - 54) = 1
        rest == sticky \/ ~WideLowZero(w, n - 54)
        inc == WideInc(kept)
    IN  IF n <= 53 THEN F64Finite(sign, e + n - 1, WideShl(w, 53 - n))
        ELSE IF ~(half /\ (rest \/ kept[1] % 2 = 1))
        THEN F64Finite(sign, e + n - 1, kept)
        ELSE IF WideBitLen(inc) = 53 THEN F64Finite(sign, e + n - 1, inc)
        ELSE F64Finite(sign, e + n, WideShr(inc, 1))

\* The f64 nearest to w / r, for a natural number w and 0 < r < 2^31
WideQuotient(w, r) ==
    LET q == WideDiv(Zeros(9) \o w, r)
    IN  RoundNearestEven(0, q.quot, -90, q.rem # 0)

\* n as f64 / r as f64 for u32 values
f64_div(n, r) ==
    IF r = 0 THEN (IF n = 0 THEN F64NaN ELSE F64Inf(0))
    ELSE IF n = 0 THEN F64Zero(0)
    ELSE WideQuotient(Wide(n), r)

\* -x
f64_neg(x) == IF x.class = "nan" THEN x ELSE [x EXCEPT !.sign = 1 - x.sign]

\* a - b for a and b that are not negative
f64_sub(a, b) ==
    IF a.class = "nan" \/ b.class = "nan" THEN F64NaN
    ELSE IF a.class = "inf" /\ b.class = "inf" THEN F64NaN
    ELSE IF a.class = "inf" THEN a
    ELSE IF b.class = "inf" THEN f64_neg(b)
    ELSE IF b.class = "zero" THEN a
    ELSE IF a.class = "zero" THEN f64_neg(b)
    ELSE LET e == IF a.exp < b.exp THEN a.exp ELSE b.exp
             am == WideShl(a.mant, a.exp - e)
             bm == WideShl(b.mant, b.exp - e)
         IN  IF WideLess(am, bm)
             THEN RoundNearestEven(1, WideSub(bm, am, 0), e - 52, FALSE)
             ELSE IF WideLess(bm, am)
             THEN RoundNearestEven(0, WideSub(am, bm, 0), e - 52, FALSE)
             ELSE F64Zero(0)

\* x * 1_000.0
f64_mul_1000(x) ==
    IF x.class # "finite" THEN x
    ELSE RoundNearestEven(x.sign, WideMulSmall(x.mant, 1000, 0), x.exp - 52,
                          FALSE)

\* f64::round: the nearest integer, halves away from zero; the integer is
\* given by its sign and its magnitude int
f64_round(x) ==
    [class |-> x.class, sign |-> x.sign,
     int |-> IF x.class # "finite" THEN <<>>
             ELSE IF x.exp >= 52 THEN WideShl(x.mant, x.exp - 52)
             ELSE IF WideBit(x.mant, 51 - x.exp) = 1
             THEN WideInc(WideShr(x.mant, 52 - x.exp))
             ELSE WideShr(x.mant, 52 - x.exp)]

\* The integer i as an f64, divided by 1_000.0
f64_int_div_1000(i) ==
    IF i.class = "nan" THEN F64NaN
    ELSE IF i.class = "inf" THEN F64Inf(i.sign)
    ELSE IF WideTrim(i.int) = <<>> THEN F64Zero(i.sign)
    ELSE [WideQuotient(i.int, 1000) EXCEPT !.sign = i.sign]

\* round3: (value * 1_000.0).round() / 1_000.0
round3(value) == f64_int_div_1000(f64_round(f64_mul_1000(value)))

----------------------------------------------------------------------------
(* Marker                                                                  *)

\* start as f64 / sample_rate as f64
Seconds(samples, rate) == f64_div(samples, rate)

\* Marker::new that takes a region whose end does not lie after its start for
\* a point marker
Marker_new_inverted_as_point(id, name, start, end, rate) ==
    LET is_region == IsSome(end) /\ Unwrap(end) > start
        start_time == Seconds(start, rate)
        end_s == Seconds(Unwrap(end), rate)
        dur_s == f64_sub(end_s, start_time)
    IN  [id |-> id, name |-> name,
         type |-> IF is_region THEN "Region" ELSE "Marker",
         start |-> start, end |-> end, start_time |-> start_time,
         end_time |-> IF is_region THEN Some(end_s) ELSE None,
         duration |-> IF is_region THEN Some(dur_s) ELSE None]

\* Marker::new that clamps the duration of an inverted region to zero
Marker_new_clamped(id, name, start, end, rate) ==
    LET marker_type == IF IsSome(end) THEN "Region" ELSE "Marker"
        start_time == Seconds(start, rate)
        end_s == Seconds(Unwrap(end), rate)
        dur_s == IF Unwrap(end) < start THEN F64Zero(0)
                 ELSE f64_sub(end_s, start_time)
    IN  [id |-> id, name |-> name, type |-> marker_type,
         start |-> start, end |-> end, start_time |-> start_time,
         end_time |-> IF IsSome(end) THEN Some(end_s) ELSE None,
         duration |-> IF IsSome(end) THEN Some(dur_s) ELSE None]

\* Marker::new
Marker_new(id, name, start, end, rate) ==
    LET marker_type == IF IsSome(end) THEN "Region" ELSE "Marker"
        start_time == Seconds(start, rate)
        end_s == Seconds(Unwrap(end), rate)
        dur_s == f64_sub(end_s, start_time)
    IN  [id |-> id, name |-> name, type |-> marker_type,
         start |-> start, end |-> end, start_time |-> start_time,
         end_time |-> IF IsSome(end) THEN Some(end_s) ELSE None,
         duration |-> IF IsSome(end) THEN Some(dur_s) ELSE None]

----------------------------------------------------------------------------
(* Metadata extractors                                                     *)

\* get_sample_rate reporting the length it expected instead of the one it got
get_sample_rate_expected_len(cs) ==
    LET format_chunk == find_chunk_by_type(cs, "Format") IN
    IF ~IsSome(format_chunk)
    THEN [ok |-> FALSE, value |-> 0, err |-> <<"MissingFormatChunk">>]
    ELSE LET len == Len(Unwrap(format_chunk).data) IN
         IF len < 8
         THEN [ok |-> FALSE, value |-> 0,
               err |-> <<"InvalidFormatChunk", 8>>]
         ELSE [ok |-> TRUE, value |-> U32LE(Unwrap(format_chunk).data, 4),
               err |-> <<>>]

\* get_sample_rate: Ok(rate), Err(MissingFormatChunk) or
\* Err(InvalidFormatChunk(len))
get_sample_rate(cs) ==
    LET format_chunk == find_chunk_by_type(cs, "Format") IN
    IF ~IsSome(format_chunk)
    THEN [ok |-> FALSE, value |-> 0, err |-> <<"MissingFormatChunk">>]
    ELSE LET len == Len(Unwrap(format_chunk).data) IN
         IF len < 8
         THEN [ok |-> FALSE, value |-> 0,
               err |-> <<"InvalidFormatChunk", len>>]
         ELSE [ok |-> TRUE, value |-> U32LE(Unwrap(format_chunk).data, 4),
               err |-> <<>>]

\* A Label from an identifier field and the name bytes after it
Label_of(cue_id, name_bytes) ==
    [cue_id |-> cue_id, name |-> trim_end_nul(from_utf8_lossy(name_bytes))]

\* The while loop giving up every label when a sub-record overruns
RECURSIVE list_walk_overrun_discards(_, _, _)
list_walk_overrun_discards(data, pos, acc) ==
    IF pos + 8 > Len(data) THEN acc
    ELSE LET sub_id == Slice(data, pos, pos + 4)
             sub_size == U32LE(data, pos + 4)
             padded_size == ((sub_size + 1) \div 2) * 2
         IN  IF pos + 8 + sub_size > Len(data) THEN <<>>
             ELSE list_walk_overrun_discards(data, pos + 8 + padded_size,
                    IF sub_id = TagLabl /\ sub_size >= 4
                    THEN Append(acc,
                           Label_of(U32LE(data, pos + 8),
                                    Slice(data, pos + 12,
                                          pos + 12 + (sub_size - 4))))
                    ELSE acc)

\* parse_list_chunk_for_labels, the while loop from cursor pos on
RECURSIVE list_walk(_, _, _)
list_walk(data, pos, acc) ==
    IF pos + 8 > Len(data) THEN acc
    ELSE LET sub_id == Slice(data, pos, pos + 4)
             sub_size == U32LE(data, pos + 4)
             padded_size == ((sub_size + 1) \div 2) * 2
         IN  IF pos + 8 + sub_size > Len(data) THEN acc
             ELSE list_walk(data, pos + 8 + padded_size,
                    IF sub_id = TagLabl /\ sub_size >= 4
                    THEN Append(acc,
                           Label_of(U32LE(data, pos + 8),
                                    Slice(data, pos + 12,
                                          pos + 12 + (sub_size - 4))))
                    ELSE acc)

\* parse_list_chunk_for_labels (it never returns Err: every try_into is on a
\* slice of 4 bytes)
parse_list_chunk_for_labels(list_chunk) ==
    LET data == list_chunk.data IN
    IF Len(data) < 4 \/ Slice(data, 0, 4) # TagAdtl THEN <<>>
    ELSE list_walk(data, 4, <<>>)

\* parse_labels, the loop over the standalone 'labl' chunks from chunk i on
RECURSIVE standalone_labels(_, _)
standalone_labels(cs, i) ==
    IF i > Len(cs) THEN <<>>
    ELSE (IF cs[i].header = "Label" /\ Len(cs[i].data) >= 4
          THEN <<Label_of(U32LE(cs[i].data, 0),
                          Slice(cs[i].data, 4, Len(cs[i].data)))>>
          ELSE <<>>) \o standalone_labels(cs, i + 1)

\* parse_labels that falls back to the list chunk whenever the standalone
\* chunks yielded no label
parse_labels_fallback_on_empty(cs) ==
    LET standalone == standalone_labels(cs, 1)
        list_chunk == find_chunk_by_type(cs, "List")
    IN  IF standalone # <<>> THEN standalone
        ELSE IF IsSome(list_chunk)
             THEN parse_list_chunk_for_labels(Unwrap(list_chunk))
             ELSE <<>>

\* parse_labels
parse_labels(cs) ==
    LET found_standalone_labels == \E i \in 1..Len(cs) : cs[i].header = "Label"
        list_chunk == find_chunk_by_type(cs, "List")
    IN  IF found_standalone_labels THEN standalone_labels(cs, 1)
        ELSE IF IsSome(list_chunk)
             THEN parse_list_chunk_for_labels(Unwrap(list_chunk))
             ELSE <<>>

\* parse_sampler_data: Ok(Some(loops)), Ok(None) or Err
parse_sampler_data(cs) ==
    LET smpl_chunk == find_chunk_by_type(cs, "Sampler") IN
    IF IsSome(smpl_chunk)
    THEN LET sampler == SamplerChunk_from_chunk(Unwrap(smpl_chunk)) IN
         [ok |-> sampler.ok, value |-> Some(sampler.sample_loops)]
    ELSE [ok |-> TRUE, value |-> None]

\* HashMap::insert
Insert(map, key, value) ==
    [k \in DOMAIN map \cup {key} |-> IF k = key THEN value ELSE map[k]]

EmptyMap == [k \in {} |-> 0]

\* parse_cue_points, the loop over the records from index i on
record_size == 24

\* The record loop keeping the first record of an identifier
RECURSIVE cue_loop_first_wins(_, _, _, _)
cue_loop_first_wins(data, i, num_cues, cue_map) ==
    IF i >= num_cues THEN cue_map
    ELSE LET start == 4 + i * 24 IN
         cue_loop_first_wins(data, i + 1, num_cues,
                  IF /\ start + 24 <= Len(data)
                     /\ U32LE(data, start) \notin DOMAIN cue_map
                  THEN Insert(cue_map, U32LE(data, start),
                              U32LE(data, start + 20))
                  ELSE cue_map)

\* The record loop decoding every complete record the payload holds,
\* whatever count it declares
RECURSIVE cue_loop_all_held(_, _, _, _)
cue_loop_all_held(data, i, num_cues, cue_map) ==
    LET start == 4 + i * 24 IN
    IF start + 24 > Len(data) THEN cue_map
    ELSE cue_loop_all_held(data, i + 1, num_cues,
                           Insert(cue_map, U32LE(data, start),
                                  U32LE(data, start + 20)))

RECURSIVE cue_loop(_, _, _, _)
cue_loop(data, i, num_cues, cue_map) ==
    IF i >= num_cues THEN cue_map
    ELSE LET start == 4 + i * record_size IN
         cue_loop(data, i + 1, num_cues,
                  IF start + record_size <= Len(data)
                  THEN Insert(cue_map, U32LE(data, start),
                              U32LE(data, start + 20))
                  ELSE cue_map)

\* parse_cue_points taking a payload shorter than 4 bytes for an empty table
parse_cue_points_short_is_empty(cs) ==
    LET cue_chunk == find_chunk_by_type(cs, "Cue") IN
    IF ~IsSome(cue_chunk) THEN None
    ELSE LET data == Unwrap(cue_chunk).data IN
         IF Len(data) < 4 THEN Some(EmptyMap)
         ELSE Some(cue_loop(data, 0, U32LE(data, 0), EmptyMap))

\* parse_cue_points: Ok(Some(map)) or Ok(None); no try_into in it can fail
parse_cue_points(cs) ==
    LET cue_chunk == find_chunk_by_type(cs, "Cue") IN
    IF ~IsSome(cue_chunk) THEN None
    ELSE LET data == Unwrap(cue_chunk).data IN
         IF Len(data) < 4 THEN None
         ELSE Some(cue_loop(data, 0, U32LE(data, 0), EmptyMap))

----------------------------------------------------------------------------
(* Marker reconciliation                                                   *)

\* The label map keeping the first label of an identifier
RECURSIVE collect_labels_first_wins(_, _, _)
collect_labels_first_wins(ls, i, map) ==
    IF i > Len(ls) THEN map
    ELSE collect_labels_first_wins(ls, i + 1,
             IF ls[i].cue_id \in DOMAIN map THEN map
             ELSE Insert(map, ls[i].cue_id, ls[i].name))

\* labels.into_iter().map(..).collect::<HashMap>(): a later label replaces
\* an earlier one with the same identifier
RECURSIVE collect_labels(_, _, _)
collect_labels(ls, i, map) ==
    IF i > Len(ls) THEN map
    ELSE collect_labels(ls, i + 1, Insert(map, ls[i].cue_id, ls[i].name))

\* sampler_loops.unwrap_or_default().into_iter().map(..).collect()
RECURSIVE collect_loops(_, _, _)
collect_loops(ls, i, map) ==
    IF i > Len(ls) THEN map
    ELSE collect_loops(ls, i + 1, Insert(map, ls[i].id, ls[i].end))

\* HashMap::get(..).copied()
Get(map, key) == IF key \in DOMAIN map THEN Some(map[key]) ELSE None

\* The orders in which a HashMap with the given keys may be iterated: the
\* hasher is seeded at random, so any order of the keys
IterationOrders(keys) ==
    {p \in [1..Cardinality(keys) -> keys] :
        \A i, j \in 1..Cardinality(keys) : i # j => p[i] # p[j]}

\* match_markers without its final sort
sort_by_start_omitted(ms) == ms

\* slice::sort_by_key(|m| m.start): a stable sort, here by insertion
RECURSIVE sort_by_start(_)
sort_by_start(ms) ==
    IF Len(ms) <= 1 THEN ms
    ELSE LET front == sort_by_start(SubSeq(ms, 1, Len(ms) - 1))
             last == ms[Len(ms)]
             k == Cardinality({i \in 1..Len(front) :
                                 front[i].start <= last.start})
         IN  SubSeq(front, 1, k) \o <<last>> \o SubSeq(front, k + 1, Len(front))

\* match_markers that walks the cue table instead of the label map
match_markers_by_cue(ls, sampler_loops, cues, rate, order) ==
    LET label_map == collect_labels(ls, 1, EmptyMap)
        sampler_map ==
            collect_loops(IF IsSome(sampler_loops) THEN Unwrap(sampler_loops)
                          ELSE <<>>, 1, EmptyMap)
        cue_order == CHOOSE p \in IterationOrders(DOMAIN cues) : TRUE
        pushed ==
            [i \in 1..Len(cue_order) |->
                LET cue_id == cue_order[i] IN
                Marker_new(cue_id,
                           IF cue_id \in DOMAIN label_map
                           THEN label_map[cue_id] ELSE <<>>,
                           cues[cue_id], Get(sampler_map, cue_id), rate)]
    IN  sort_by_start(pushed)

\* match_markers that skips a label without a cue record
match_markers_skip_uncued(ls, sampler_loops, cues, rate, order) ==
    LET label_map == collect_labels(ls, 1, EmptyMap)
        sampler_map ==
            collect_loops(IF IsSome(sampler_loops) THEN Unwrap(sampler_loops)
                          ELSE <<>>, 1, EmptyMap)
        cued == SelectSeq(order, LAMBDA id : id \in DOMAIN cues)
        pushed ==
            [i \in 1..Len(cued) |->
                Marker_new(cued[i], label_map[cued[i]], cues[cued[i]],
                           Get(sampler_map, cued[i]), rate)]
    IN  sort_by_start(pushed)

\* match_markers, with the order in which label_map is iterated
match_markers(ls, sampler_loops, cues, rate, order) ==
    LET label_map == collect_labels(ls, 1, EmptyMap)
        sampler_map ==
            collect_loops(IF IsSome(sampler_loops) THEN Unwrap(sampler_loops)
                          ELSE <<>>, 1, EmptyMap)
        pushed ==
            [i \in 1..Len(order) |->
                LET cue_id == order[i]
                    end == Get(sampler_map, cue_id)
                    start == IF IsSome(Get(cues, cue_id))
                             THEN Unwrap(Get(cues, cue_id)) ELSE 0
                IN  Marker_new(cue_id, label_map[cue_id], start, end, rate)]
    IN  sort_by_start(pushed)

----------------------------------------------------------------------------
(* Container rewriter (tools/strip)                                         *)

\* (n as u32).to_le_bytes(): the four low bytes of n, two's complement
to_le_bytes(n) ==
    <<n % 256, (n \div 256) % 256, (n \div 65536) % 256,
      (n \div 16777216) % 256>>

\* strip_audio_data that drops the chunks whose type it does not know
strip_chunk_known_only(chunk) ==
    IF chunk.header = "Data" THEN TagData \o to_le_bytes(0)
    ELSE IF chunk.header = "Other" THEN <<>>
    ELSE ChunkType_to_tag(chunk) \o to_le_bytes(Len(chunk.data)) \o chunk.data

\* strip_audio_data, what one chunk adds to the output buffer
strip_chunk(chunk) ==
    IF chunk.header = "Data" THEN TagData \o to_le_bytes(0)
    ELSE ChunkType_to_tag(chunk) \o to_le_bytes(Len(chunk.data)) \o chunk.data

\* strip_audio_data, the loop over the chunks from chunk i on
RECURSIVE strip_chunks(_, _)
strip_chunks(cs, i) ==
    IF i > Len(cs) THEN <<>>
    ELSE strip_chunk(cs[i]) \o strip_chunks(cs, i + 1)

\* strip_audio_data that leaves the placeholder in the RIFF size field
patch_riff_size_omitted(out) == out

\* strip_audio_data, the patch of the RIFF size field: out[4..8]
patch_riff_size(out) ==
    LET riff_size == Len(out) - 8 IN
    SubSeq(out, 1, 4) \o to_le_bytes(riff_size) \o SubSeq(out, 9, Len(out))

\* strip_audio_data: Err when the input cannot be read, else the bytes
\* written to the output path
strip_audio_data(input) ==
    LET riff_file == RiffFile_read(input) IN
    IF ~riff_file.ok THEN [ok |-> FALSE, err |-> riff_file.err, out |-> <<>>]
    ELSE [ok |-> TRUE, err |-> <<>>,
          out |-> patch_riff_size(TagRiff \o to_le_bytes(0) \o TagWave
                                    \o strip_chunks(riff_file.chunks, 1))]

\* The identifiers of the label list: the keys of label_map
LabelIds(ls) == {ls[i].cue_id : i \in 1..Len(ls)}

----------------------------------------------------------------------------
(* Inputs: the payloads the files of the model are assembled from          *)

\* u32::to_le_bytes
LE32(v) == <<v % 256, (v \div 256) % 256, (v \div 65536) % 256,
             (v \div 16777216) % 256>>

RECURSIVE Flatten(_)
Flatten(ss) == IF ss = <<>> THEN <<>> ELSE Head(ss) \o Flatten(Tail(ss))

\* Sequences over S of length at most n
SeqsUpTo(S, n) == UNION {[1..k -> S] : k \in 0..n}

Chunk(header, data) == [header |-> header, data |-> data]

\* 'fmt ' payload: PCM, 2 channels, the rate, byte rate, block align, 16 bits
FmtData(rate) ==
    <<1, 0, 2, 0>> \o LE32(rate) \o LE32(rate * 4) \o <<4, 0, 16, 0>>

\* 'cue ' payload declaring n records and holding those of recs
CueRecord(r) ==
    LE32(r.id) \o LE32(0) \o <<100, 97, 116, 97>> \o LE32(0) \o LE32(0)
        \o LE32(r.offset)
CueData(n, recs) ==
    LE32(n) \o Flatten([i \in 1..Len(recs) |-> CueRecord(recs[i])])

\* 'labl' payload: identifier, text, terminating NUL
LabelData(id, text) == LE32(id) \o text \o <<0>>

\* 'LIST' payload of type adtl: sub-records tag, size, payload, pad
SubRecord(tag, payload) ==
    tag \o LE32(Len(payload)) \o payload
        \o (IF Len(payload) % 2 = 1 THEN <<0>> ELSE <<>>)
AdtlData(subs) == TagAdtl \o Flatten(subs)

\* 'smpl' payload: header with the loop count, then the loops
SmplLoop(l) ==
    LE32(l.id) \o LE32(0) \o LE32(0) \o LE32(l.end) \o LE32(0) \o LE32(0)
SmplData(loops) ==
    Flatten([i \in 1..7 |-> LE32(0)]) \o LE32(Len(loops)) \o LE32(0)
        \o Flatten([i \in 1..Len(loops) |-> SmplLoop(loops[i])])

Rec(id, offset) == [id |-> id, offset |-> offset]
Loop(id, end) == [id |-> id, end |-> end]

\* Texts: "A", "B", "C"
TextA == <<65>>
TextB == <<66>>
TextC == <<67>>

----------------------------------------------------------------------------
(* parse_markers_from_file on the files of the model                       *)

MaxLabelChunks == 2

Paths == {"a.wav", "b.wav"}

FormatChoices ==
    {<<>>, <<Chunk("Format", <<1, 0, 2, 0>>)>>,
     <<Chunk("Format", <<1, 0, 2, 0, 128, 187, 0>>)>>,
     <<Chunk("Format", FmtData(48000))>>}

LabelPayloads == {LabelData(1, TextA), LabelData(2, TextB), <<1, 0>>}
LabelChoices ==
    {[i \in 1..Len(ps) |-> Chunk("Label", ps[i])] :
        ps \in SeqsUpTo(LabelPayloads, MaxLabelChunks)}

ListChoices ==
    {<<>>, <<Chunk("List", AdtlData(<<SubRecord(TagLabl, LabelData(3, TextC))>>))>>}

SamplerChoices ==
    {<<>>, <<Chunk("Sampler", <<0, 0, 0, 0>>)>>,
     <<Chunk("Sampler", SmplData(<<Loop(1, 96000)>>))>>,
     <<Chunk("Sampler", SmplData(<<Loop(1, 96000), Loop(2, 5)>>))>>}

CueChoices ==
    {<<>>, <<Chunk("Cue", <<1, 0>>)>>,
     <<Chunk("Cue", CueData(0, <<>>))>>,
     <<Chunk("Cue", CueData(1, <<Rec(1, 48000)>>))>>,
     <<Chunk("Cue", CueData(2, <<Rec(1, 48000), Rec(2, 48000)>>))>>}

DataChunk == <<Chunk("Data", <<>>)>>

Files ==
    {f \o DataChunk \o c \o l \o a \o s :
        f \in FormatChoices, c \in CueChoices, l \in LabelChoices,
        a \in ListChoices, s \in SamplerChoices}

Init ==
    /\ file_path \in Paths
    /\ chunks \in Files
    /\ pc = "get_sample_rate"
    /\ sample_rate = 0
    /\ labels = <<>>
    /\ sampler_data = None
    /\ cue_points = None
    /\ result = WavData_new("", 0)
    /\ outcome = "Running"
    /\ error = <<>>
    /\ args = <<>>
    /\ ret = None
    /\ ret2 = None

\* let sample_rate = get_sample_rate(&riff_file)?; let mut result = WavData {..}
GetSampleRate ==
    /\ pc = "get_sample_rate"
    /\ LET r == get_sample_rate(chunks) IN
       IF r.ok
       THEN /\ sample_rate' = r.value
            /\ result' = WavData_new(file_path, r.value)
            /\ pc' = "parse_labels"
            /\ UNCHANGED <<outcome, error>>
       ELSE /\ outcome' = "Err"
            /\ error' = r.err
            /\ pc' = "done"
            /\ UNCHANGED <<sample_rate, result>>
    /\ UNCHANGED <<file_path, chunks, labels, sampler_data, cue_points>>
    /\ UNCHANGED call_vars

\* let labels = parse_labels(&riff_file);
ParseLabels ==
    /\ pc = "parse_labels"
    /\ labels' = parse_labels(chunks)
    /\ pc' = "parse_sampler_data"
    /\ UNCHANGED <<file_path, chunks, sample_rate, sampler_data, cue_points,
                   result, outcome, error>>
    /\ UNCHANGED call_vars

\* The sampler step returning Ok(result) as soon as the reason is set
ParseSamplerData_ShortCircuit ==
    /\ pc = "parse_sampler_data"
    /\ LET r == parse_sampler_data(chunks) IN
       IF r.ok
       THEN /\ sampler_data' = r.value
            /\ IF ~IsSome(r.value)
               THEN /\ result' = set_reason(result, "NoSamplerData")
                    /\ outcome' = "Ok"
                    /\ pc' = "done"
               ELSE /\ pc' = "parse_cue_points"
                    /\ UNCHANGED <<result, outcome>>
            /\ UNCHANGED error
       ELSE /\ outcome' = "Err"
            /\ error' = <<"Io">>
            /\ pc' = "done"
            /\ UNCHANGED <<sampler_data, result>>
    /\ UNCHANGED <<file_path, chunks, sample_rate, labels, cue_points>>
    /\ UNCHANGED call_vars

\* let sampler_data = parse_sampler_data(&riff_file)?;
\* if sampler_data.is_none() { result.set_reason(Reason::NoSamplerData); }
ParseSamplerData ==
    /\ pc = "parse_sampler_data"
    /\ LET r == parse_sampler_data(chunks) IN
       IF r.ok
       THEN /\ sampler_data' = r.value
            /\ result' = IF ~IsSome(r.value)
                         THEN set_reason(result, "NoSamplerData")
                         ELSE result
            /\ pc' = "parse_cue_points"
            /\ UNCHANGED <<outcome, error>>
       ELSE /\ outcome' = "Err"
            /\ error' = <<"Io">>
            /\ pc' = "done"
            /\ UNCHANGED <<sampler_data, result>>
    /\ UNCHANGED <<file_path, chunks, sample_rate, labels, cue_points>>
    /\ UNCHANGED call_vars

\* The cue step failing the parse when there is no cue table
ParseCuePoints_Fatal ==
    /\ pc = "parse_cue_points"
    /\ LET r == parse_cue_points(chunks) IN
       IF IsSome(r)
       THEN /\ cue_points' = r
            /\ pc' = "match_markers"
            /\ UNCHANGED <<result, outcome, error>>
       ELSE /\ outcome' = "Err"
            /\ error' = <<"Other", "no cue points">>
            /\ pc' = "done"
            /\ UNCHANGED <<cue_points, result>>
    /\ UNCHANGED <<file_path, chunks, sample_rate, labels, sampler_data>>
    /\ UNCHANGED call_vars

\* let Some(cue_points) = parse_cue_points(&riff_file)? else {
\*     result.set_reason(Reason::NoCuePoints); return Ok(result); };
ParseCuePoints ==
    /\ pc = "parse_cue_points"
    /\ LET r == parse_cue_points(chunks) IN
       IF IsSome(r)
       THEN /\ cue_points' = r
            /\ pc' = "match_markers"
            /\ UNCHANGED <<result, outcome>>
       ELSE /\ result' = set_reason(result, "NoCuePoints")
            /\ outcome' = "Ok"
            /\ pc' = "done"
            /\ UNCHANGED cue_points
    /\ UNCHANGED <<file_path, chunks, sample_rate, labels, sampler_data, error>>
    /\ UNCHANGED call_vars

\* The matching step reporting NoLabels or NoMarkersMatched on an empty result
MatchMarkers_ReportsEmpty ==
    /\ pc = "match_markers"
    /\ \E order \in IterationOrders(LabelIds(labels)) :
          LET ms == match_markers(labels, sampler_data, Unwrap(cue_points),
                                  sample_rate, order)
              matched == [result EXCEPT !.markers = ms]
          IN  result' = IF labels = <<>> THEN set_reason(matched, "NoLabels")
                        ELSE IF ms = <<>>
                        THEN set_reason(matched, "NoMarkersMatched")
                        ELSE matched
    /\ outcome' = "Ok"
    /\ pc' = "done"
    /\ UNCHANGED <<file_path, chunks, sample_rate, labels, sampler_data,
                   cue_points, error>>
    /\ UNCHANGED call_vars

\* result.markers = match_markers(labels, sampler_data, cue_points, sample_rate);
\* Ok(result)
MatchMarkers ==
    /\ pc = "match_markers"
    /\ \E order \in IterationOrders(LabelIds(labels)) :
          result' = [result EXCEPT !.markers =
                        match_markers(labels, sampler_data,
                                      Unwrap(cue_points), sample_rate, order)]
    /\ outcome' = "Ok"
    /\ pc' = "done"
    /\ UNCHANGED <<file_path, chunks, sample_rate, labels, sampler_data,
                   cue_points, error>>
    /\ UNCHANGED call_vars

Next ==
    \/ GetSampleRate
    \/ ParseLabels
    \/ ParseSamplerData
    \/ ParseCuePoints
    \/ MatchMarkers

Spec == Init /\ [][Next]_vars

----------------------------------------------------------------------------
(* Marker::new and match_markers called on their own                       *)

MaxLabels == 3

Idle ==
    /\ file_path = ""
    /\ chunks = <<>>
    /\ sample_rate = 0
    /\ labels = <<>>
    /\ sampler_data = None
    /\ cue_points = None
    /\ result = WavData_new("", 0)
    /\ outcome = "Running"
    /\ error = <<>>

Lab(id, name) == [cue_id |-> id, name |-> name]

MatchLabelChoices ==
    SeqsUpTo({Lab(1, TextA), Lab(2, TextB), Lab(3, TextC), Lab(1, TextC)},
             MaxLabels)

MatchSamplerChoices ==
    {None, Some(<<>>), Some(<<Loop(1, 20)>>),
     Some(<<Loop(1, 20), Loop(2, 5)>>),
     Some(<<Loop(4, 7), Loop(2, 5), Loop(2, 9)>>)}

MatchCueChoices ==
    {EmptyMap, (1 :> 10), (1 :> 10) @@ (2 :> 10),
     (1 :> 10) @@ (2 :> 30) @@ (5 :> 0),
     (1 :> 30) @@ (2 :> 10) @@ (3 :> 10)}

Rates == {0, 1, 48000, 1073741824}

InitMatch ==
    /\ Idle
    /\ \/ /\ pc = "call_match_markers"
          /\ args \in [labels : MatchLabelChoices,
                       sampler_loops : MatchSamplerChoices,
                       cue_points : MatchCueChoices,
                       sample_rate : Rates]
       \/ /\ pc = "call_Marker_new"
          /\ args \in [id : {1, 2}, name : {TextA, TextB},
                       start : {0, 10, 30},
                       end : {None, Some(0), Some(5), Some(10), Some(20)},
                       sample_rate : Rates]
    /\ ret = None
    /\ ret2 = None

\* Marker::new(id, name, start, end, sample_rate)
Call_Marker_new ==
    /\ pc = "call_Marker_new"
    /\ ret = None
    /\ ret' = Some(Marker_new(args.id, args.name, args.start, args.end,
                              args.sample_rate))
    /\ UNCHANGED <<args, ret2>>
    /\ UNCHANGED parse_vars

\* match_markers(labels, sampler_loops, cue_points, sample_rate)
Call_match_markers ==
    /\ pc = "call_match_markers"
    /\ ret = None
    /\ \E order \in IterationOrders(LabelIds(args.labels)) :
          ret' = Some(match_markers(args.labels, args.sampler_loops,
                                    args.cue_points, args.sample_rate, order))
    /\ UNCHANGED <<args, ret2>>
    /\ UNCHANGED parse_vars

\* match_markers run once more on the same arguments
Recall_match_markers ==
    /\ pc = "call_match_markers"
    /\ IsSome(ret)
    /\ ret2 = None
    /\ \E order \in IterationOrders(LabelIds(args.labels)) :
          ret2' = Some(match_markers(args.labels, args.sampler_loops,
                                     args.cue_points, args.sample_rate, order))
    /\ UNCHANGED <<args, ret>>
    /\ UNCHANGED parse_vars

NextMatch ==
    \/ Call_Marker_new
    \/ Call_match_markers
    \/ Recall_match_markers

SpecMatch == InitMatch /\ [][NextMatch]_vars

----------------------------------------------------------------------------
(* Properties of parse_markers_from_file (specification Spec)              *)

HasChunk(type) == \E i \in 1..Len(chunks) : chunks[i].header = type
FirstChunk(type) == Unwrap(find_chunk_by_type(chunks, type))
FormatValid == HasChunk("Format") /\ Len(FirstChunk("Format").data) >= 8
SamplerWellFormed ==
    HasChunk("Sampler") /\ SamplerChunk_from_chunk(FirstChunk("Sampler")).ok
\* A cue chunk that holds a cue table: at least the 4-byte record count (a
\* shorter payload is handled like an absent cue chunk)
CueTablePresent == HasChunk("Cue") /\ Len(FirstChunk("Cue").data) >= 4
Returned == pc = "done"
MarkerIds(ms) == {ms[i].id : i \in 1..Len(ms)}

\* C1 as stated: with a valid format chunk and a cue table but no sampler
\* chunk, the call succeeds with no marker and reason NoSamplerData, and no
\* result holds both a marker and a reason.
C1_NoSamplerShortCircuits ==
    /\ (Returned /\ FormatValid /\ CueTablePresent /\ ~HasChunk("Sampler"))
          => /\ outcome = "Ok"
             /\ result.markers = <<>>
             /\ result.reason = Some("NoSamplerData")
    /\ (Returned /\ result.markers # <<>>) => result.reason = None

\* C1 amended: with a valid format chunk, a cue table and no sampler chunk,
\* the call succeeds with reason NoSamplerData and reconciliation still runs:
\* the result holds one point Marker (no end offset) per distinct label
\* identifier, so it is empty only when no label was extracted.
C1_NoSamplerStillReconciles ==
    (/\ Returned
     /\ FormatValid
     /\ CueTablePresent
     /\ ~HasChunk("Sampler"))
        => /\ outcome = "Ok"
           /\ result.reason = Some("NoSamplerData")
           /\ MarkerIds(result.markers) = LabelIds(labels)
           /\ Len(result.markers) = Cardinality(LabelIds(labels))
           /\ \A i \in 1..Len(result.markers) :
                 /\ result.markers[i].type = "Marker"
                 /\ result.markers[i].end = None

C1_Witness ==
    /\ Returned
    /\ FormatValid
    /\ CueTablePresent
    /\ ~HasChunk("Sampler")
    /\ outcome = "Ok"
    /\ Len(result.markers) = 2
    /\ result.reason = Some("NoSamplerData")

\* C2 as stated: when both the sampler chunk and the cue chunk are missing
\* the reason is NoSamplerData, and NoCuePoints is reported only when the
\* sampler chunk is present and the cue table is absent.
C2_SamplerBeforeCue ==
    /\ (Returned /\ outcome = "Ok" /\ ~HasChunk("Sampler") /\ ~HasChunk("Cue"))
          => result.reason = Some("NoSamplerData")
    /\ (Returned /\ outcome = "Ok" /\ result.reason = Some("NoCuePoints"))
          => (HasChunk("Sampler") /\ ~CueTablePresent)

\* C3: with a valid format chunk, a well-formed sampler chunk and no cue
\* chunk, the call succeeds with the path and the sample rate filled in, no
\* marker, reason NoCuePoints and a non-empty reason text, whatever the
\* labels.
C3_MissingCueNotFatal ==
    (Returned /\ FormatValid /\ SamplerWellFormed /\ ~HasChunk("Cue"))
        => /\ outcome = "Ok"
           /\ error = <<>>
           /\ result.path = file_path
           /\ result.sample_rate = U32LE(FirstChunk("Format").data, 4)
           /\ result.markers = <<>>
           /\ result.reason = Some("NoCuePoints")
           /\ IsSome(result.reason_text)
           /\ Unwrap(result.reason_text) # ""

C3_Witness ==
    /\ Returned
    /\ FormatValid
    /\ SamplerWellFormed
    /\ ~HasChunk("Cue")
    /\ Len(labels) = 2
    /\ outcome = "Ok"
    /\ result.sample_rate = 48000
    /\ result.reason = Some("NoCuePoints")

----------------------------------------------------------------------------
(* Properties of Marker::new and match_markers (specification SpecMatch)   *)

MatchReturned == pc = "call_match_markers" /\ IsSome(ret)
NewReturned == pc = "call_Marker_new" /\ IsSome(ret)

\* The markers a call produced
Produced ==
    IF MatchReturned THEN {Unwrap(ret)[i] : i \in 1..Len(Unwrap(ret))}
    ELSE IF NewReturned THEN {Unwrap(ret)}
    ELSE {}

LoopIds(loops) ==
    IF IsSome(loops)
    THEN {Unwrap(loops)[i].id : i \in 1..Len(Unwrap(loops))}
    ELSE {}

\* C4 as stated: two runs of match_markers on the same arguments return the
\* same markers in the same order.
C4_Deterministic ==
    (pc = "call_match_markers" /\ IsSome(ret) /\ IsSome(ret2)) => ret = ret2

\* C5: the markers match_markers returns are in ascending order of start.
C5_SortedByStart ==
    MatchReturned =>
        \A i \in 1..(Len(Unwrap(ret)) - 1) :
            Unwrap(ret)[i].start <= Unwrap(ret)[i + 1].start

C5_Witness ==
    /\ MatchReturned
    /\ Len(Unwrap(ret)) = 3
    /\ Unwrap(ret)[1].start < Unwrap(ret)[2].start
    /\ Unwrap(ret)[2].start < Unwrap(ret)[3].start
    /\ Unwrap(ret)[1].id > Unwrap(ret)[3].id

\* C6: the identifiers of the markers returned are exactly the distinct
\* identifiers of the label list, one marker each; an identifier found only
\* in the cue table or only in the sampler table is not emitted.
C6_OneMarkerPerLabelId ==
    MatchReturned =>
        LET ms == Unwrap(ret) IN
        /\ MarkerIds(ms) = LabelIds(args.labels)
        /\ Len(ms) = Cardinality(LabelIds(args.labels))
        /\ \A i, j \in 1..Len(ms) : ms[i].id = ms[j].id => i = j
        /\ \A id \in (DOMAIN args.cue_points \cup LoopIds(args.sampler_loops))
                        \ LabelIds(args.labels) :
              id \notin MarkerIds(ms)

C6_Witness ==
    /\ MatchReturned
    /\ Len(args.labels) = 3
    /\ Cardinality(LabelIds(args.labels)) = 2
    /\ 5 \in DOMAIN args.cue_points
    /\ LoopIds(args.sampler_loops) = {2, 4}
    /\ Len(Unwrap(ret)) = 2

\* C7: a marker is a Region exactly when it has an end offset; end, end_time
\* and duration are all present or all absent; match_markers gives a marker
\* an end offset exactly when its identifier is in the sampler table.
C7_RegionIffEnd ==
    /\ \A m \in Produced :
          /\ (m.type = "Region") <=> IsSome(m.end)
          /\ (m.type = "Marker") <=> ~IsSome(m.end)
          /\ IsSome(m.end_time) <=> IsSome(m.end)
          /\ IsSome(m.duration) <=> IsSome(m.end)
    /\ MatchReturned =>
          \A m \in Produced :
              IsSome(m.end) <=> m.id \in LoopIds(args.sampler_loops)
    /\ NewReturned => Unwrap(ret).end = args.end

C7_Witness ==
    /\ MatchReturned
    /\ \E m \in Produced : m.type = "Region" /\ Unwrap(m.end) < m.start
    /\ \E m \in Produced : m.type = "Marker"

\* C8: a label whose identifier has no cue record is emitted with start 0,
\* and with the end offset of its sampler loop if there is one; a label whose
\* identifier has a cue record starts at that record's sample offset.
C8_StartFromCueOrZero ==
    MatchReturned =>
        /\ \A id \in LabelIds(args.labels) : \E m \in Produced : m.id = id
        /\ \A m \in Produced :
              /\ m.id \notin DOMAIN args.cue_points => m.start = 0
              /\ m.id \in DOMAIN args.cue_points =>
                    m.start = args.cue_points[m.id]
              /\ m.id \in LoopIds(args.sampler_loops) =>
                    /\ IsSome(m.end)
                    /\ \E i \in 1..Len(Unwrap(args.sampler_loops)) :
                          /\ Unwrap(args.sampler_loops)[i].id = m.id
                          /\ Unwrap(args.sampler_loops)[i].end = Unwrap(m.end)

C8_Witness ==
    /\ MatchReturned
    /\ \E m \in Produced :
          /\ m.id \notin DOMAIN args.cue_points
          /\ m.start = 0
          /\ m.end = Some(5)
    /\ \E m \in Produced : m.id \in DOMAIN args.cue_points /\ m.start = 10

----------------------------------------------------------------------------
(* parse_labels called on its own                                          *)

MaxListChunks == 2

\* "note"
TagNote == <<110, 111, 116, 101>>

StandalonePayloads ==
    {LabelData(1, TextA), LabelData(2, TextB \o <<0, 0>>),
     LabelData(3, <<255, 67>>), <<7, 0, 0, 0>>, <<1, 0>>}

ListPayloads ==
    {AdtlData(<<SubRecord(TagLabl, LabelData(3, TextC))>>),
     AdtlData(<<SubRecord(TagNote, LabelData(9, TextA)),
                SubRecord(TagLabl, LabelData(4, TextA)),
                SubRecord(TagLabl, LabelData(1, TextB \o TextC))>>),
     <<73, 78, 70, 79>> \o SubRecord(TagLabl, LabelData(5, TextA)),
     <<97, 100>>}

ChunksOf(header, payloads) ==
    [i \in 1..Len(payloads) |-> Chunk(header, payloads[i])]

LabelFiles ==
    LET ls == {ChunksOf("Label", ps) :
                  ps \in SeqsUpTo(StandalonePayloads, MaxLabelChunks)}
        as == {ChunksOf("List", ps) :
                  ps \in SeqsUpTo(ListPayloads, MaxListChunks)}
        head == <<Chunk("Format", FmtData(48000))>>
    IN  {head \o l \o a : l \in ls, a \in as}
            \cup {head \o a \o l : l \in ls, a \in as}

InitLabels ==
    /\ Idle
    /\ pc = "call_parse_labels"
    /\ args \in [chunks : LabelFiles]
    /\ ret = None
    /\ ret2 = None

\* parse_labels(&riff_file)
Call_parse_labels ==
    /\ pc = "call_parse_labels"
    /\ ret = None
    /\ ret' = Some(parse_labels(args.chunks))
    /\ UNCHANGED <<args, ret2>>
    /\ UNCHANGED parse_vars

NextLabels == Call_parse_labels

SpecLabels == InitLabels /\ [][NextLabels]_vars

LabelsReturned == pc = "call_parse_labels" /\ IsSome(ret)

\* The chunks of the file with the given tag, in file order
ChunksTagged(cs, header) == SelectSeq(cs, LAMBDA c : c.header = header)

\* The labels the list chunks of the file hold
ListLabelsOf(cs) ==
    UNION {{parse_list_chunk_for_labels(ChunksTagged(cs, "List")[i])[k] :
                k \in 1..Len(parse_list_chunk_for_labels(
                                ChunksTagged(cs, "List")[i]))} :
              i \in 1..Len(ChunksTagged(cs, "List"))}

\* C9: the list chunk is consulted exactly when the file has no chunk tagged
\* as a standalone label.  With a standalone label chunk, even one too short
\* to yield a label, the labels are those of the standalone chunks of at
\* least 4 bytes, in file order, and none comes from a list chunk; without
\* one, the labels are those of the first list chunk.
C9_StandaloneBeforeList ==
    LabelsReturned =>
        LET out == Unwrap(ret)
            standalone == ChunksTagged(args.chunks, "Label")
            usable == SelectSeq(standalone, LAMBDA c : Len(c.data) >= 4)
            lists == ChunksTagged(args.chunks, "List")
        IN  /\ standalone # <<>> =>
                  /\ Len(out) = Len(usable)
                  /\ \A k \in 1..Len(usable) :
                        /\ out[k].cue_id = U32LE(usable[k].data, 0)
                        /\ out[k].name =
                              trim_end_nul(from_utf8_lossy(
                                  SubSeq(usable[k].data, 5,
                                         Len(usable[k].data))))
                  /\ \A l \in ListLabelsOf(args.chunks) :
                        (\A k \in 1..Len(out) : out[k] # l)
                            \/ (\E k \in 1..Len(usable) :
                                   U32LE(usable[k].data, 0) = l.cue_id)
            /\ standalone = <<>> =>
                  out = IF lists = <<>> THEN <<>>
                        ELSE parse_list_chunk_for_labels(lists[1])

C9_Witness ==
    /\ LabelsReturned
    /\ ChunksTagged(args.chunks, "Label") = <<Chunk("Label", <<1, 0>>)>>
    /\ ListLabelsOf(args.chunks) # {}
    /\ args.chunks[2].header = "List"
    /\ Unwrap(ret) = <<>>

----------------------------------------------------------------------------
(* parse_cue_points called on its own                                      *)

MaxCues == 3

CueRecords == {Rec(1, 10), Rec(2, 10), Rec(1, 30), Rec(258, 70000)}

\* Payloads declaring n records and holding the records of recs, cut short
\* by some bytes or not
CuePayloads ==
    {SubSeq(CueData(n, recs), 1, Len(CueData(n, recs)) - cut) :
        n \in 0..(MaxCues + 1), recs \in SeqsUpTo(CueRecords, MaxCues),
        cut \in {0, 1, 23}}
      \cup {<<>>, <<1, 0, 0>>}

CueFiles ==
    {<<Chunk("Format", FmtData(48000))>>}
        \cup {<<Chunk("Format", FmtData(48000)), Chunk("Cue", p)>> :
                 p \in CuePayloads}

InitCue ==
    /\ Idle
    /\ pc = "call_parse_cue_points"
    /\ args \in [chunks : CueFiles]
    /\ ret = None
    /\ ret2 = None

\* parse_cue_points(&riff_file): always Ok, of Some(map) or None
Call_parse_cue_points ==
    /\ pc = "call_parse_cue_points"
    /\ ret = None
    /\ ret' = Some(parse_cue_points(args.chunks))
    /\ UNCHANGED <<args, ret2>>
    /\ UNCHANGED parse_vars

NextCue == Call_parse_cue_points

SpecCue == InitCue /\ [][NextCue]_vars

CueReturned == pc = "call_parse_cue_points" /\ IsSome(ret)

\* The payload of the cue chunk of the file called on
CuePayload == ChunksTagged(args.chunks, "Cue")[1].data
\* The fields of record i (from 0) of a cue payload
RecordId(data, i) == U32LE(data, 4 + 24 * i)
RecordOffset(data, i) == U32LE(data, 4 + 24 * i + 20)
\* The payload declares N records and holds N complete records
HoldsDeclaredRecords ==
    /\ ChunksTagged(args.chunks, "Cue") # <<>>
    /\ Len(CuePayload) >= 4
    /\ Len(CuePayload) >= 4 + 24 * U32LE(CuePayload, 0)

\* C10: for a cue payload that declares N records and holds N complete
\* records, the table has one entry per distinct identifier of those records
\* (N entries when they are distinct), mapping the identifier to the sample
\* offset of the last record that carries it.
C10_CueTableLastWins ==
    (CueReturned /\ HoldsDeclaredRecords) =>
        LET n == U32LE(CuePayload, 0)
            table == Unwrap(Unwrap(ret))
        IN  /\ IsSome(Unwrap(ret))
            /\ DOMAIN table = {RecordId(CuePayload, i) : i \in 0..(n - 1)}
            /\ \A i \in 0..(n - 1) :
                  (\A j \in (i + 1)..(n - 1) :
                      RecordId(CuePayload, j) # RecordId(CuePayload, i))
                    => table[RecordId(CuePayload, i)]
                          = RecordOffset(CuePayload, i)
            /\ (\A i, j \in 0..(n - 1) :
                    i # j => RecordId(CuePayload, i) # RecordId(CuePayload, j))
                  => Cardinality(DOMAIN table) = n

C10_Witness ==
    /\ CueReturned
    /\ HoldsDeclaredRecords
    /\ U32LE(CuePayload, 0) = 3
    /\ RecordId(CuePayload, 0) = 1
    /\ RecordId(CuePayload, 2) = 1
    /\ RecordOffset(CuePayload, 0) = 10
    /\ Unwrap(Unwrap(ret)) = (1 :> 30) @@ (258 :> 70000)

----------------------------------------------------------------------------
(* Properties of the format chunk (specification Spec)                     *)

\* C11: without a format chunk the call returns MissingFormatChunk, with a
\* format payload under 8 bytes InvalidFormatChunk carrying the payload's
\* length, in both cases with no result and before any metadata is examined,
\* whatever other chunks are missing; otherwise the sample rate is the
\* little-endian value of payload bytes 4..8.
C11_FormatErrorsFirst ==
    /\ (pc # "get_sample_rate" /\ ~HasChunk("Format"))
          => /\ Returned
             /\ outcome = "Err"
             /\ error = <<"MissingFormatChunk">>
    /\ (pc # "get_sample_rate" /\ HasChunk("Format")
            /\ Len(FirstChunk("Format").data) < 8)
          => /\ Returned
             /\ outcome = "Err"
             /\ error = <<"InvalidFormatChunk", Len(FirstChunk("Format").data)>>
    /\ (pc # "get_sample_rate" /\ ~FormatValid)
          => /\ result = WavData_new("", 0)
             /\ labels = <<>>
             /\ sampler_data = None
             /\ cue_points = None
    /\ (pc # "get_sample_rate" /\ FormatValid)
          => /\ sample_rate =
                   FirstChunk("Format").data[5]
                     + 256 * FirstChunk("Format").data[6]
                     + 65536 * FirstChunk("Format").data[7]
                     + 16777216 * FirstChunk("Format").data[8]
             /\ result.sample_rate = sample_rate
             /\ error # <<"MissingFormatChunk">>
             /\ (error = <<>> \/ error[1] # "InvalidFormatChunk")

C11_Witness ==
    /\ Returned
    /\ outcome = "Err"
    /\ error = <<"InvalidFormatChunk", 7>>
    /\ ~HasChunk("Cue")
    /\ ~HasChunk("Sampler")

----------------------------------------------------------------------------
(* Properties of the time fields (specification SpecMatch)                 *)

\* C12 as stated: for a marker with an end offset, start_time and end_time
\* are the f64 quotients of the offsets by the sample rate and duration is
\* the f64 difference end_time minus start_time of those unrounded values,
\* without clamping: a marker whose end lies before its start is still a
\* Region, keeps its end offset and has a negative duration.
C12_DurationNegativeWhenInverted ==
    /\ \A m \in Produced :
          /\ m.start_time = f64_div(m.start, args.sample_rate)
          /\ IsSome(m.end) =>
                /\ Unwrap(m.end_time) =
                      f64_div(Unwrap(m.end), args.sample_rate)
                /\ Unwrap(m.duration) =
                      f64_sub(Unwrap(m.end_time), m.start_time)
                /\ Unwrap(m.end) < m.start =>
                      /\ m.type = "Region"
                      /\ Unwrap(m.duration).class = "finite"
                      /\ Unwrap(m.duration).sign = 1
    /\ NewReturned =>
          /\ Unwrap(ret).start = args.start
          /\ Unwrap(ret).end = args.end

\* C12 amended: for a marker with an end offset, start_time and end_time are
\* the f64 quotients of the offsets by the sample rate and duration is the
\* f64 difference end_time minus start_time of those unrounded values,
\* without clamping: a marker whose end lies before its start is still a
\* Region and keeps its end offset; its duration is negative when the sample
\* rate is positive and NaN when the sample rate is 0 (start_time is then
\* infinite and end_time infinite or NaN).
C12_DurationIsEndMinusStart ==
    /\ \A m \in Produced :
          /\ m.start_time = f64_div(m.start, args.sample_rate)
          /\ IsSome(m.end) =>
                /\ Unwrap(m.end_time) =
                      f64_div(Unwrap(m.end), args.sample_rate)
                /\ Unwrap(m.duration) =
                      f64_sub(Unwrap(m.end_time), m.start_time)
                /\ Unwrap(m.end) < m.start =>
                      /\ m.type = "Region"
                      /\ args.sample_rate > 0 =>
                            /\ Unwrap(m.duration).class = "finite"
                            /\ Unwrap(m.duration).sign = 1
                      /\ args.sample_rate = 0 =>
                            /\ m.start_time.class = "inf"
                            /\ Unwrap(m.end_time).class \in {"inf", "nan"}
                            /\ Unwrap(m.duration).class = "nan"
    /\ NewReturned =>
          /\ Unwrap(ret).start = args.start
          /\ Unwrap(ret).end = args.end

\* 20 / 48000 - 30 / 48000 is -0.00020833333333333332 (bits
\* bf2b4e81b4e81b4e), one unit in the last place away from -(10 / 48000)
C12_Witness ==
    /\ NewReturned
    /\ args.start = 30
    /\ args.end = Some(20)
    /\ args.sample_rate = 48000
    /\ Unwrap(ret).type = "Region"
    /\ Unwrap(ret).end = Some(20)
    /\ Unwrap(ret).duration =
          Some([class |-> "finite", sign |-> 1, exp |-> -13,
                mant |-> <<846, 518, 846, 518, 846, 6>>])
    /\ Unwrap(ret).duration # Some(f64_neg(f64_div(10, 48000)))

----------------------------------------------------------------------------
(* strip_audio_data called on its own                                      *)

MaxStripChunks == 3

\* "bext"
TagBext == <<98, 101, 120, 116>>

Record(tag, payload) == [tag |-> tag, payload |-> payload]

\* A chunk as a valid container holds it: tag, size, payload, pad
WriteRecord(r) ==
    r.tag \o LE32(Len(r.payload)) \o r.payload
        \o (IF Len(r.payload) % 2 = 1 THEN <<0>> ELSE <<>>)

WriteRecords(rs) == Flatten([i \in 1..Len(rs) |-> WriteRecord(rs[i])])

\* A container with the given chunks; its RIFF size field is exact or, the
\* field being advisory, zero
Container(rs, exact) ==
    TagRiff \o LE32(IF exact THEN 4 + Len(WriteRecords(rs)) ELSE 0)
        \o TagWave \o WriteRecords(rs)

StripRecords ==
    {Record(TagFmt, FmtData(48000)),
     Record(TagLabl, LabelData(1, <<>>)),
     Record(TagBext, <<1, 2>>),
     Record(TagData, <<>>),
     Record(TagData, <<9, 8, 7, 6>>),
     Record(TagData, <<9, 8, 7>>)}

\* The calls: valid containers with their chunks, and unreadable inputs
StripInputs ==
    {[input |-> Container(rs, exact), records |-> rs, valid |-> TRUE] :
        rs \in SeqsUpTo(StripRecords, MaxStripChunks), exact \in BOOLEAN}
      \cup
    {[input |-> bad, records |-> <<>>, valid |-> FALSE] :
        bad \in {<<82, 73, 70, 88>> \o LE32(4) \o TagWave,
                 TagRiff \o LE32(4) \o <<87, 65, 86, 88>>,
                 TagRiff \o LE32(4) \o TagWave \o TagData \o LE32(4) \o <<9>>}}

InitStrip ==
    /\ Idle
    /\ pc = "call_strip_audio_data"
    /\ args \in StripInputs
    /\ ret = None
    /\ ret2 = None

\* strip_audio_data(input_path, output_path)
Call_strip_audio_data ==
    /\ pc = "call_strip_audio_data"
    /\ ret = None
    /\ ret' = Some(strip_audio_data(args.input))
    /\ UNCHANGED <<args, ret2>>
    /\ UNCHANGED parse_vars

\* strip_audio_data run again, on the file the first run wrote
Recall_strip_audio_data ==
    /\ pc = "call_strip_audio_data"
    /\ IsSome(ret)
    /\ Unwrap(ret).ok
    /\ ret2 = None
    /\ ret2' = Some(strip_audio_data(Unwrap(ret).out))
    /\ UNCHANGED <<args, ret>>
    /\ UNCHANGED parse_vars

NextStrip ==
    \/ Call_strip_audio_data
    \/ Recall_strip_audio_data

SpecStrip == InitStrip /\ [][NextStrip]_vars

StripReturned == pc = "call_strip_audio_data" /\ IsSome(ret)

\* Where the record of chunk k starts in the output when every chunk before
\* it took its 8 header bytes and, unless it is a data chunk, its payload
RECURSIVE StripOffset(_, _)
StripOffset(rs, k) ==
    IF k = 1 THEN 12
    ELSE StripOffset(rs, k - 1) + 8
            + (IF rs[k - 1].tag = TagData THEN 0 ELSE Len(rs[k - 1].payload))

\* C13: the output is the 12-byte RIFF/WAVE header followed by one record
\* per chunk of the input, in order: a chunk other than data with its tag,
\* its declared size and its payload bytes, whatever its tag; a data chunk
\* as the tag "data" with declared size 0 and no payload.
C13_OneRecordPerChunk ==
    (StripReturned /\ args.valid) =>
        LET out == Unwrap(ret).out
            rs == args.records
        IN  /\ Unwrap(ret).ok
            /\ Len(out) = StripOffset(rs, Len(rs) + 1)
            /\ SubSeq(out, 1, 4) = TagRiff
            /\ SubSeq(out, 9, 12) = TagWave
            /\ \A k \in 1..Len(rs) :
                  LET at == StripOffset(rs, k) IN
                  /\ SubSeq(out, at + 1, at + 4) = rs[k].tag
                  /\ rs[k].tag = TagData =>
                        SubSeq(out, at + 5, at + 8) = <<0, 0, 0, 0>>
                  /\ rs[k].tag # TagData =>
                        /\ SubSeq(out, at + 5, at + 8)
                              = LE32(Len(rs[k].payload))
                        /\ SubSeq(out, at + 9, at + 8 + Len(rs[k].payload))
                              = rs[k].payload

C13_Witness ==
    /\ StripReturned
    /\ args.valid
    /\ Len(args.records) = 3
    /\ args.records[1].tag = TagBext
    /\ args.records[2] = Record(TagData, <<9, 8, 7, 6>>)
    /\ args.records[3].tag = TagFmt
    /\ Len(Unwrap(ret).out) = 12 + 10 + 8 + 24

\* The chunks a walk of the bytes yields, as tag and payload
WalkedRecords(bytes) ==
    LET cs == RiffFile_read(bytes).chunks IN
    [i \in 1..Len(cs) |-> Record(ChunkType_to_tag(cs[i]), cs[i].data)]

\* What the rewrite is to keep of a chunk: all of it, or the tag alone
Stripped(r) == IF r.tag = TagData THEN Record(TagData, <<>>) ELSE r

\* C14: the rewritten container can be walked again and yields the chunks
\* of the input, same number and order, each with its tag and payload,
\* the data chunk with size 0; also when a chunk other than data has an odd
\* size.
C14_RewrittenWalkable ==
    (StripReturned /\ args.valid) =>
        LET out == Unwrap(ret).out IN
        /\ RiffFile_read(out).ok
        /\ WalkedRecords(out)
              = [i \in 1..Len(args.records) |-> Stripped(args.records[i])]

\* A container that was stripped before: exact RIFF size, no data payload
AlreadyStripped ==
    /\ args.valid
    /\ U32LE(args.input, 4) = Len(args.input) - 8
    /\ \A i \in 1..Len(args.records) :
          args.records[i].tag = TagData => args.records[i].payload = <<>>

\* C15: rewriting a container whose data chunk already has size 0 writes
\* the bytes of the input, and rewriting the output of a rewrite writes
\* that output again.
C15_RestripIdentical ==
    /\ (StripReturned /\ AlreadyStripped) =>
          /\ Unwrap(ret).ok
          /\ Unwrap(ret).out = args.input
    /\ (StripReturned /\ IsSome(ret2)) =>
          /\ Unwrap(ret2).ok
          /\ Unwrap(ret2).out = Unwrap(ret).out

\* C16: in every output the u32 at bytes 4..8 is the length of the output
\* minus 8, whatever the RIFF size field of the input said, and the output
\* has at least its 12 header bytes.
C16_RiffSizePatched ==
    (StripReturned /\ Unwrap(ret).ok) =>
        LET out == Unwrap(ret).out IN
        /\ Len(out) >= 12
        /\ U32LE(out, 4) = Len(out) - 8

C16_Witness ==
    /\ StripReturned
    /\ Unwrap(ret).ok
    /\ Len(args.records) = 2
    /\ U32LE(args.input, 4) = 0
    /\ U32LE(Unwrap(ret).out, 4) = 4 + 8 + 24

----------------------------------------------------------------------------
(* The command line: main and its output handlers                          *)

\* u32::to_string: the decimal digits, as code points
RECURSIVE to_string(_)
to_string(n) ==
    IF n < 10 THEN <<48 + n>> ELSE to_string(n \div 10) \o <<48 + (n % 10)>>

\* The thousandths nearest to |x| for a finite x, ties to even, taken on
\* the exact value of x as format!("{:.3}") does
Thousandths(x) ==
    LET p == WideMulSmall(x.mant, 1000, 0)
        whole == WideShr(p, 52 - x.exp)
        half == WideBit(p, 51 - x.exp) = 1
        rest == ~WideLowZero(p, 51 - x.exp)
    IN  IF x.exp >= 52 THEN WideShl(p, x.exp - 52)
        ELSE IF half /\ (rest \/ WideBit(whole, 0) = 1) THEN WideInc(whole)
        ELSE whole

\* The decimal digits of w, none for zero
RECURSIVE WideDecimal(_)
WideDecimal(w) ==
    IF WideTrim(w) = <<>> THEN <<>>
    ELSE WideDecimal(WideDiv(w, 10).quot) \o <<48 + WideDiv(w, 10).rem>>

\* format!("{:.3}", round3(value))
format3(value) ==
    LET x == round3(value)
        minus == IF x.sign = 1 THEN <<45>> ELSE <<>>
        digits == WideDecimal(Thousandths(x))
        padded == IF Len(digits) >= 4 THEN digits
                  ELSE [i \in 1..(4 - Len(digits)) |-> 48] \o digits
    IN  IF x.class = "nan" THEN <<78, 97, 78>>
        ELSE IF x.class = "inf" THEN minus \o <<105, 110, 102>>
        ELSE IF x.class = "zero" THEN minus \o <<48, 46, 48, 48, 48>>
        ELSE minus \o SubSeq(padded, 1, Len(padded) - 3) \o <<46>>
                 \o SubSeq(padded, Len(padded) - 2, Len(padded))

\* format!("{:?}", marker.r#type).to_lowercase()
type_to_lowercase(type) == IF type = "Region" THEN "region" ELSE "marker"

OutputFormats == {"Json", "Csv", "Tsv", "Psv", "Human"}

\* The delimiter main passes for the format: ',', '\t', '|'
Delimiter(format) ==
    IF format = "Csv" THEN 44 ELSE IF format = "Tsv" THEN 9 ELSE 124

\* output_delimited, the header record
HeaderRecord ==
    <<"type", "id", "name", "start", "end", "start_time", "end_time",
      "duration", "sample_rate">>

\* output_delimited, the data record of one marker
DataRecord(marker, rate) ==
    <<type_to_lowercase(marker.type),
      to_string(marker.id),
      marker.name,
      to_string(marker.start),
      IF IsSome(marker.end) THEN to_string(Unwrap(marker.end)) ELSE <<>>,
      format3(marker.start_time),
      IF IsSome(marker.end_time) THEN format3(Unwrap(marker.end_time)) ELSE <<>>,
      IF IsSome(marker.duration) THEN format3(Unwrap(marker.duration)) ELSE <<>>,
      to_string(rate)>>

\* output_delimited that writes the header record whatever the flag says
output_delimited_header_always(ok, err, data, delimiter, include_header) ==
    IF ~ok
    THEN [exit_code |-> 1, stdout |-> <<>>, stderr |-> <<err>>,
          delimiter |-> delimiter]
    ELSE [exit_code |-> 0,
          stdout |-> <<HeaderRecord>>
                      \o [i \in 1..Len(data.markers) |->
                              DataRecord(data.markers[i], data.sample_rate)],
          stderr |-> <<>>,
          delimiter |-> delimiter]

\* output_delimited: the records written to stdout and the exit code
output_delimited(ok, err, data, delimiter, include_header) ==
    IF ~ok
    THEN [exit_code |-> 1, stdout |-> <<>>, stderr |-> <<err>>,
          delimiter |-> delimiter]
    ELSE [exit_code |-> 0,
          stdout |-> (IF include_header THEN <<HeaderRecord>> ELSE <<>>)
                      \o [i \in 1..Len(data.markers) |->
                              DataRecord(data.markers[i], data.sample_rate)],
          stderr |-> <<>>,
          delimiter |-> delimiter]

\* The JSON null
JsonNull == [class |-> "null", sign |-> 0, exp |-> 0, mant |-> <<>>]

\* serialize_f64: the number printed is round3 of the value; serde_json
\* prints null for a value that is not finite
serialize_f64(value) ==
    IF round3(value).class \in {"nan", "inf"} THEN JsonNull
    ELSE round3(value)

\* serialize_opt_f64: Some(v) is serialized as round3 of v (null when that
\* is not finite) and None as null
serialize_opt_f64(value) ==
    IF IsSome(value) THEN serialize_f64(Unwrap(value)) ELSE JsonNull

\* The JSON object of one marker: the times go through their serializers and
\* skip_serializing_if = "Option::is_none" omits the fields end, end_time and
\* duration when they are None (an omitted field is None here)
MarkerValue(m) ==
    [id |-> m.id, name |-> m.name, type |-> m.type, start |-> m.start,
     end |-> m.end, start_time |-> serialize_f64(m.start_time),
     end_time |-> IF IsSome(m.end_time)
                  THEN Some(serialize_opt_f64(m.end_time)) ELSE None,
     duration |-> IF IsSome(m.duration)
                  THEN Some(serialize_opt_f64(m.duration)) ELSE None]

\* output_json: the document printed, the function then returns
output_json(ok, err, data) ==
    IF ~ok
    THEN [exit_code |-> 0, stdout |-> <<[error |-> err]>>, stderr |-> <<>>]
    ELSE [exit_code |-> 0,
          stdout |-> <<[path |-> data.path, sample_rate |-> data.sample_rate,
                        markers |-> [i \in 1..Len(data.markers) |->
                                        MarkerValue(data.markers[i])],
                        reason |-> data.reason,
                        reason_text |-> data.reason_text]>>,
          stderr |-> <<>>]

\* output_human, the block of one marker
HumanBlock(m) ==
    IF IsSome(m.end)
    THEN <<[line |-> "Region", id |-> m.id, name |-> m.name],
           [line |-> "Start", samples |-> m.start],
           [line |-> "End", samples |-> Unwrap(m.end)],
           [line |-> "Duration"],
           [line |-> ""]>>
    ELSE <<[line |-> "Marker", id |-> m.id, name |-> m.name],
           [line |-> "Position", samples |-> m.start],
           [line |-> ""]>>

\* output_human: the lines printed and the exit code
output_human(ok, err, data) ==
    IF ~ok
    THEN [exit_code |-> 1, stdout |-> <<>>, stderr |-> <<err>>]
    ELSE [exit_code |-> 0,
          stdout |-> <<[line |-> "File", path |-> data.path],
                       [line |-> "Sample rate", rate |-> data.sample_rate],
                       [line |-> "Total markers", count |-> Len(data.markers)]>>
                     \o (IF IsSome(data.reason)
                         THEN <<[line |-> "Reason", reason |-> Unwrap(data.reason),
                                 docs |-> get_documentation(Unwrap(data.reason))]>>
                         ELSE <<>>)
                     \o <<[line |-> ""]>>
                     \o Flatten([i \in 1..Len(data.markers) |->
                                    HumanBlock(data.markers[i])]),
          stderr |-> <<>>]

\* The files given on the command line, as bytes
CliInputs ==
    {<<82, 73, 70, 88>> \o LE32(4) \o TagWave,
     TagRiff \o LE32(4) \o <<87, 65, 86, 88>>,
     TagRiff \o LE32(4) \o TagWave \o TagData \o LE32(4) \o <<9>>,
     Container(<<Record(TagData, <<>>)>>, TRUE),
     Container(<<Record(TagFmt, <<1, 0, 2, 0>>)>>, TRUE),
     Container(<<Record(TagFmt, FmtData(48000))>>, TRUE),
     Container(<<Record(TagFmt, FmtData(48000)),
                 Record(TagSmpl, <<0, 0, 0, 0>>)>>, TRUE),
     Container(<<Record(TagFmt, FmtData(48000)),
                 Record(TagCue, CueData(1, <<Rec(1, 48000)>>)),
                 Record(TagLabl, LabelData(1, TextA))>>, TRUE),
     Container(<<Record(TagFmt, FmtData(48000)),
                 Record(TagData, <<9, 8>>),
                 Record(TagCue, CueData(2, <<Rec(1, 48000), Rec(2, 48)>>)),
                 Record(TagLabl, LabelData(1, TextA)),
                 Record(TagLabl, LabelData(2, TextB)),
                 Record(TagSmpl, SmplData(<<Loop(1, 96000)>>))>>, FALSE),
     Container(<<Record(TagFmt, FmtData(48000)),
                 Record(TagCue, CueData(2, <<Rec(1, 48000), Rec(2, 48)>>)),
                 Record(TagList,
                        AdtlData(<<SubRecord(TagLabl, LabelData(1, TextA)),
                                   SubRecord(TagLabl, LabelData(2, TextB)),
                                   SubRecord(TagLabl, LabelData(3, TextC))>>)),
                 Record(TagSmpl, SmplData(<<Loop(1, 96000), Loop(2, 5)>>))>>,
               TRUE)}

InitCli ==
    /\ file_path \in Paths
    /\ args \in [input : CliInputs, format : OutputFormats,
                 no_header : BOOLEAN]
    /\ pc = "read"
    /\ chunks = <<>>
    /\ sample_rate = 0
    /\ labels = <<>>
    /\ sampler_data = None
    /\ cue_points = None
    /\ result = WavData_new("", 0)
    /\ outcome = "Running"
    /\ error = <<>>
    /\ ret = None
    /\ ret2 = None

\* let riff_file = RiffFile::read(file, ..).map_err(..)?;
ReadRiffFile ==
    /\ pc = "read"
    /\ LET r == RiffFile_read(args.input) IN
       IF r.ok
       THEN /\ chunks' = r.chunks
            /\ pc' = "get_sample_rate"
            /\ UNCHANGED <<outcome, error>>
       ELSE /\ outcome' = "Err"
            /\ error' = r.err
            /\ pc' = "done"
            /\ UNCHANGED chunks
    /\ UNCHANGED <<file_path, sample_rate, labels, sampler_data, cue_points,
                   result>>
    /\ UNCHANGED call_vars

\* OutputFormat::Json => output_json(&result)
Output_json ==
    /\ pc = "done"
    /\ args.format = "Json"
    /\ ret' = Some(output_json(outcome = "Ok", error, result))
    /\ pc' = "exit"
    /\ UNCHANGED <<args, ret2>>
    /\ UNCHANGED <<file_path, chunks, sample_rate, labels, sampler_data,
                   cue_points, result, outcome, error>>

\* OutputFormat::Csv | Tsv | Psv => output_delimited(&result, .., !cli.no_header)
Output_delimited ==
    /\ pc = "done"
    /\ args.format \in {"Csv", "Tsv", "Psv"}
    /\ ret' = Some(output_delimited(outcome = "Ok", error, result,
                                    Delimiter(args.format), ~args.no_header))
    /\ pc' = "exit"
    /\ UNCHANGED <<args, ret2>>
    /\ UNCHANGED <<file_path, chunks, sample_rate, labels, sampler_data,
                   cue_points, result, outcome, error>>

\* OutputFormat::Human => output_human(&result)
Output_human ==
    /\ pc = "done"
    /\ args.format = "Human"
    /\ ret' = Some(output_human(outcome = "Ok", error, result))
    /\ pc' = "exit"
    /\ UNCHANGED <<args, ret2>>
    /\ UNCHANGED <<file_path, chunks, sample_rate, labels, sampler_data,
                   cue_points, result, outcome, error>>

NextCli ==
    \/ ReadRiffFile
    \/ GetSampleRate
    \/ ParseLabels
    \/ ParseSamplerData
    \/ ParseCuePoints
    \/ MatchMarkers
    \/ Output_json
    \/ Output_delimited
    \/ Output_human

SpecCli == InitCli /\ [][NextCli]_vars

Exited == pc = "exit"

\* C17: the process exits with code 1 whenever parse_markers_from_file
\* returned an error, whatever the output format, and with code 0 only when
\* it succeeded.
C17_ExitOneOnError ==
    Exited =>
        /\ outcome = "Err" => Unwrap(ret).exit_code = 1
        /\ Unwrap(ret).exit_code = 0 => outcome = "Ok"

\* C18: the delimited output is one data record per marker, in the order of
\* the markers, after exactly one header record naming the nine columns,
\* or after none when --no-header is given.
C18_HeaderThenOneRecordPerMarker ==
    (Exited /\ args.format \in {"Csv", "Tsv", "Psv"} /\ outcome = "Ok") =>
        LET out == Unwrap(ret).stdout
            h == IF args.no_header THEN 0 ELSE 1
        IN  /\ Len(out) = h + Len(result.markers)
            /\ h = 1 =>
                  out[1] = <<"type", "id", "name", "start", "end",
                             "start_time", "end_time", "duration",
                             "sample_rate">>
            /\ \A i \in 1..Len(result.markers) :
                  /\ Len(out[h + i]) = 9
                  /\ out[h + i][1] \in {"marker", "region"}
                  /\ out[h + i][1] = "region" <=> IsSome(result.markers[i].end)
                  /\ out[h + i][2] = to_string(result.markers[i].id)
                  /\ out[h + i][3] = result.markers[i].name
                  /\ out[h + i][4] = to_string(result.markers[i].start)

C18_Witness ==
    /\ Exited
    /\ args.format = "Psv"
    /\ args.no_header
    /\ outcome = "Ok"
    /\ Len(result.markers) = 3
    /\ Len(Unwrap(ret).stdout) = 3
    /\ Unwrap(ret).stdout[1][2] = <<51>>
    /\ Unwrap(ret).stdout[2][6] = <<48, 46, 48, 48, 49>>
    /\ Unwrap(ret).stdout[2][8] = <<45, 48, 46, 48, 48, 49>>

----------------------------------------------------------------------------
(* Truncated cue tables                                                    *)

\* The number of records decoded from a payload: those declared, or those
\* the payload holds in full when it is shorter than it declares
DecodedRecords(data) ==
    LET declared == U32LE(data, 0)
        held == (Len(data) - 4) \div 24
    IN  IF declared < held THEN declared ELSE held

\* C19: for a cue payload of at least 4 bytes declaring N records, the call
\* succeeds with a table built from exactly the first min(N, (L - 4) / 24)
\* records: the later of two records with one identifier gives the offset,
\* a record cut short and the bytes after the N-th record give nothing.
C19_TruncatedTableRecovered ==
    (CueReturned /\ ChunksTagged(args.chunks, "Cue") # <<>>
                 /\ Len(CuePayload) >= 4) =>
        LET k == DecodedRecords(CuePayload)
            table == Unwrap(Unwrap(ret))
        IN  /\ IsSome(Unwrap(ret))
            /\ DOMAIN table = {RecordId(CuePayload, i) : i \in 0..(k - 1)}
            /\ \A i \in 0..(k - 1) :
                  (\A j \in (i + 1)..(k - 1) :
                      RecordId(CuePayload, j) # RecordId(CuePayload, i))
                    => table[RecordId(CuePayload, i)]
                          = RecordOffset(CuePayload, i)

C19_Witness ==
    /\ CueReturned
    /\ ChunksTagged(args.chunks, "Cue") # <<>>
    /\ Len(CuePayload) = 4 + 24 + 24 + 1
    /\ U32LE(CuePayload, 0) = 3
    /\ RecordId(CuePayload, 1) = 2
    /\ Unwrap(Unwrap(ret)) = (1 :> 10) @@ (2 :> 10)

----------------------------------------------------------------------------
(* parse_list_chunk_for_labels called on its own                           *)

MaxSubRecords == 3

\* A sub-record of the list: its tag, its payload, the name it is to give
\* and whether it declares more bytes than the list holds
Sub(tag, payload, name, overrun) ==
    [tag |-> tag, payload |-> payload, name |-> name, overrun |-> overrun]

SubChoices ==
    {Sub(TagLabl, LabelData(1, TextA), TextA, FALSE),
     Sub(TagLabl, LabelData(2, <<>>), <<>>, FALSE),
     Sub(TagLabl, LE32(3) \o TextB \o <<0, 0>>, TextB, FALSE),
     Sub(TagLabl, <<1, 0>>, <<>>, FALSE),
     Sub(TagLabl, LabelData(5, <<195, 169, 255>>), <<233, 65533>>, FALSE),
     Sub(TagNote, LabelData(9, TextC), <<>>, FALSE),
     Sub(TagLabl, LabelData(4, TextC), TextC, TRUE)}

\* The bytes of a sub-record; one that overruns declares 200 bytes
WriteSub(s) ==
    IF s.overrun THEN s.tag \o LE32(200) \o s.payload
    ELSE SubRecord(s.tag, s.payload)

ListCalls ==
    {[list_chunk |-> Chunk("List",
                          TagAdtl \o Flatten([i \in 1..Len(ss) |->
                                                 WriteSub(ss[i])])),
      subs |-> ss, adtl |-> TRUE] :
        ss \in SeqsUpTo(SubChoices, MaxSubRecords)}
      \cup
    {[list_chunk |-> Chunk("List", p), subs |-> <<>>, adtl |-> FALSE] :
        p \in {<<>>, <<97, 100, 116>>,
               <<73, 78, 70, 79>> \o SubRecord(TagLabl, LabelData(5, TextA))}}

InitList ==
    /\ Idle
    /\ pc = "call_parse_list_chunk_for_labels"
    /\ args \in ListCalls
    /\ ret = None
    /\ ret2 = None

\* parse_list_chunk_for_labels(list_chunk)
Call_parse_list_chunk_for_labels ==
    /\ pc = "call_parse_list_chunk_for_labels"
    /\ ret = None
    /\ ret' = Some(parse_list_chunk_for_labels(args.list_chunk))
    /\ UNCHANGED <<args, ret2>>
    /\ UNCHANGED parse_vars

NextList == Call_parse_list_chunk_for_labels

SpecList == InitList /\ [][NextList]_vars

ListReturned == pc = "call_parse_list_chunk_for_labels" /\ IsSome(ret)

\* The labels due from the sub-records from i on: none from the first
\* overrunning sub-record on, one for each "labl" of 4 bytes or more
RECURSIVE LabelsDue(_, _)
LabelsDue(ss, i) ==
    IF i > Len(ss) \/ ss[i].overrun THEN <<>>
    ELSE (IF ss[i].tag = TagLabl /\ Len(ss[i].payload) >= 4
          THEN <<[cue_id |-> U32LE(ss[i].payload, 0), name |-> ss[i].name]>>
          ELSE <<>>) \o LabelsDue(ss, i + 1)

\* C20: a list payload shorter than 4 bytes or not starting with "adtl"
\* gives no label; otherwise the sub-records are walked in order up to the
\* first one that declares more bytes than remain, and each "labl"
\* sub-record of size 4 or more gives one label, its identifier from the
\* first 4 bytes and its name from the other bytes without trailing NULs;
\* sub-records with another tag or a smaller size give none and are passed.
C20_ListLabels ==
    ListReturned =>
        IF args.adtl THEN Unwrap(ret) = LabelsDue(args.subs, 1)
        ELSE Unwrap(ret) = <<>>

C20_Witness ==
    /\ ListReturned
    /\ args.adtl
    /\ Len(args.subs) = 3
    /\ args.subs[1].payload = LE32(3) \o TextB \o <<0, 0>>
    /\ args.subs[2].tag = TagNote
    /\ args.subs[3].overrun
    /\ Unwrap(ret) = <<[cue_id |-> 3, name |-> TextB]>>

----------------------------------------------------------------------------
(* set_reason and clear_reason called on a WavData                         *)

MaxReasonCalls == 3

\* The WavData the calls are made on: as constructed, with or without markers
ReasonSubjects ==
    {[WavData_new(p, r) EXCEPT
         !.markers = IF marked THEN <<Marker_new(1, TextA, 10, None, r)>>
                     ELSE <<>>] :
        p \in Paths, r \in Rates, marked \in BOOLEAN}

\* result is the WavData, args what it was at first, ret the calls made
InitReason ==
    /\ pc = "call_reason"
    /\ result \in ReasonSubjects
    /\ args = [data |-> result]
    /\ ret = <<>>
    /\ ret2 = None
    /\ file_path = ""
    /\ chunks = <<>>
    /\ sample_rate = 0
    /\ labels = <<>>
    /\ sampler_data = None
    /\ cue_points = None
    /\ outcome = "Running"
    /\ error = <<>>

\* data.set_reason(reason)
Call_set_reason ==
    /\ pc = "call_reason"
    /\ Len(ret) < MaxReasonCalls
    /\ \E reason \in Reasons :
          /\ result' = set_reason(result, reason)
          /\ ret' = Append(ret, [op |-> "set_reason", reason |-> reason])
    /\ UNCHANGED <<args, ret2>>
    /\ UNCHANGED <<file_path, chunks, pc, sample_rate, labels, sampler_data,
                   cue_points, outcome, error>>

\* data.clear_reason()
Call_clear_reason ==
    /\ pc = "call_reason"
    /\ Len(ret) < MaxReasonCalls
    /\ result' = clear_reason(result)
    /\ ret' = Append(ret, [op |-> "clear_reason", reason |-> ""])
    /\ UNCHANGED <<args, ret2>>
    /\ UNCHANGED <<file_path, chunks, pc, sample_rate, labels, sampler_data,
                   cue_points, outcome, error>>

NextReason ==
    \/ Call_set_reason
    \/ Call_clear_reason

SpecReason == InitReason /\ [][NextReason]_vars

\* The explanation attached to each variant of Reason
Explanation(reason) ==
    CASE reason = "NoLabels" -> "No label chunks were found in the file"
      [] reason = "NoSamplerData" ->
            "No 'smpl' (sampler) chunk was found in the file"
      [] reason = "NoCuePoints" ->
            "Labels and/or sampler data found but no 'cue ' chunk"
      [] reason = "NoMarkersMatched" ->
            "Metadata exists but couldn't be matched into markers"

\* C21: after any sequence of set_reason and clear_reason calls the reason
\* is present exactly when the explanation is; after set_reason(r) the
\* reason is r and the explanation is the text of r, whatever was there
\* before; after clear_reason both are absent; path, sample_rate and
\* markers are as they were before the calls.
C21_ReasonWithItsText ==
    pc = "call_reason" =>
        /\ IsSome(result.reason) <=> IsSome(result.reason_text)
        /\ ret # <<>> =>
              LET last == ret[Len(ret)] IN
              IF last.op = "set_reason"
              THEN /\ result.reason = <<last.reason>>
                   /\ result.reason_text = <<Explanation(last.reason)>>
              ELSE /\ result.reason = <<>>
                   /\ result.reason_text = <<>>
        /\ result.path = args.data.path
        /\ result.sample_rate = args.data.sample_rate
        /\ result.markers = args.data.markers

C21_Witness ==
    /\ pc = "call_reason"
    /\ Len(ret) = 3
    /\ ret[1] = [op |-> "set_reason", reason |-> "NoLabels"]
    /\ ret[2].op = "clear_reason"
    /\ ret[3] = [op |-> "set_reason", reason |-> "NoCuePoints"]
    /\ result.markers # <<>>
    /\ result.reason = <<"NoCuePoints">>

----------------------------------------------------------------------------
(* Duplicate label identifiers                                             *)

\* C22: when several labels carry one identifier, match_markers returns a
\* single marker for it, named after the last of those labels in the order
\* of the label list.
C22_LastLabelNames ==
    MatchReturned =>
        LET ms == Unwrap(ret)
            ls == args.labels
        IN  \A k \in 1..Len(ls) :
               (\A j \in (k + 1)..Len(ls) : ls[j].cue_id # ls[k].cue_id) =>
                  /\ Cardinality({i \in 1..Len(ms) : ms[i].id = ls[k].cue_id})
                        = 1
                  /\ \A i \in 1..Len(ms) :
                        ms[i].id = ls[k].cue_id => ms[i].name = ls[k].name

C22_Witness ==
    /\ MatchReturned
    /\ args.labels = <<Lab(1, TextA), Lab(2, TextB), Lab(1, TextC)>>
    /\ Len(Unwrap(ret)) = 2
    /\ \E i \in 1..2 : Unwrap(ret)[i].id = 1 /\ Unwrap(ret)[i].name = TextC

----------------------------------------------------------------------------
(* The reasons parse_markers_from_file reports                             *)

\* C23 as stated: when the sampler chunk and the cue chunk are both present
\* (in a file with a valid format chunk) and no label is extracted, the call
\* succeeds with no marker and no reason; and the reason of every result
\* returned is absent, NoSamplerData or NoCuePoints, never NoLabels or
\* NoMarkersMatched.
C23_PresentChunksNoReason ==
    /\ (Returned /\ FormatValid /\ HasChunk("Sampler") /\ HasChunk("Cue")
                 /\ labels = <<>>)
          => /\ outcome = "Ok"
             /\ result.markers = <<>>
             /\ result.reason = None
    /\ (Returned /\ outcome = "Ok")
          => result.reason \in {None, Some("NoSamplerData"),
                                Some("NoCuePoints")}

\* C23 amended: in a file with a valid format chunk, a sampler chunk and a
\* cue chunk from which no label is extracted, the call succeeds with no
\* marker and no reason when the sampler chunk decodes and the cue chunk
\* holds a cue table (payload of at least 4 bytes); it succeeds with no
\* marker and reason NoCuePoints when the sampler chunk decodes and the cue
\* payload is shorter; and it fails with an Io error when the sampler chunk
\* does not decode.  The reason of every result returned is absent,
\* NoSamplerData or NoCuePoints, never NoLabels or NoMarkersMatched.
C23_EmptyLabelsNoReason ==
    /\ (Returned /\ FormatValid /\ SamplerWellFormed /\ CueTablePresent
                 /\ labels = <<>>)
          => /\ outcome = "Ok"
             /\ result.markers = <<>>
             /\ result.reason = None
             /\ result.reason_text = None
    /\ (Returned /\ FormatValid /\ SamplerWellFormed /\ HasChunk("Cue")
                 /\ ~CueTablePresent /\ labels = <<>>)
          => /\ outcome = "Ok"
             /\ result.markers = <<>>
             /\ result.reason = Some("NoCuePoints")
    /\ (Returned /\ FormatValid /\ HasChunk("Sampler") /\ ~SamplerWellFormed
                 /\ HasChunk("Cue") /\ labels = <<>>)
          => /\ outcome = "Err"
             /\ error = <<"Io">>
    /\ (Returned /\ outcome = "Ok")
          => result.reason \in {None, Some("NoSamplerData"),
                                Some("NoCuePoints")}

C23_Witness ==
    /\ Returned
    /\ FormatValid
    /\ SamplerWellFormed
    /\ CueTablePresent
    /\ HasChunk("Label")
    /\ labels = <<>>
    /\ Unwrap(cue_points) # EmptyMap
    /\ outcome = "Ok"
    /\ result.reason = None

----------------------------------------------------------------------------
(* A cue chunk too short to hold a record count                            *)

CueChunkShort == HasChunk("Cue") /\ Len(FirstChunk("Cue").data) < 4

\* C24: a cue chunk whose payload is shorter than 4 bytes is handled as an
\* absent one: parse_cue_points returns no table, as it does for the file
\* without the chunk, and when the format and sampler steps did not fail
\* the call succeeds with no marker and reason NoCuePoints, whatever the
\* labels.
C24_ShortCueIsAbsent ==
    (Returned /\ CueChunkShort) =>
        /\ parse_cue_points(chunks) = None
        /\ parse_cue_points(SelectSeq(chunks, LAMBDA c : c.header # "Cue"))
              = None
        /\ cue_points = None
        /\ (FormatValid /\ (SamplerWellFormed \/ ~HasChunk("Sampler"))) =>
              /\ outcome = "Ok"
              /\ error = <<>>
              /\ result.markers = <<>>
              /\ result.reason = Some("NoCuePoints")

C24_Witness ==
    /\ Returned
    /\ CueChunkShort
    /\ FormatValid
    /\ SamplerWellFormed
    /\ Len(labels) = 2
    /\ outcome = "Ok"
    /\ result.markers = <<>>
    /\ result.reason = Some("NoCuePoints")

----------------------------------------------------------------------------
(* The sub-record walk of parse_list_chunk_for_labels, step by step        *)

Range(from, to) == [from |-> from, to |-> to]

\* One iteration of the loop that advances the cursor by the padded size only
list_step_header_not_counted(data, pos, acc) ==
    LET sub_id == Slice(data, pos, pos + 4)
        sub_size == U32LE(data, pos + 4)
        padded_size == ((sub_size + 1) \div 2) * 2
        header == {Range(pos, pos + 4), Range(pos + 4, pos + 8)}
    IN  IF pos + 8 + sub_size > Len(data)
        THEN [break |-> TRUE, pos |-> pos, labels |-> acc, reads |-> header]
        ELSE IF sub_id = TagLabl /\ sub_size >= 4
        THEN [break |-> FALSE, pos |-> pos + padded_size,
              labels |-> Append(acc,
                           Label_of(U32LE(data, pos + 8),
                                    Slice(data, pos + 12,
                                          pos + 12 + (sub_size - 4)))),
              reads |-> header \cup {Range(pos + 8, pos + 12),
                                     Range(pos + 12, pos + 12 + (sub_size - 4))}]
        ELSE [break |-> FALSE, pos |-> pos + padded_size, labels |-> acc,
              reads |-> header]

\* One iteration of the while loop entered with pos + 8 <= data.len(): the
\* cursor and the labels after it, whether it left by break, and the byte
\* ranges of data it indexed
list_step(data, pos, acc) ==
    LET sub_id == Slice(data, pos, pos + 4)
        sub_size == U32LE(data, pos + 4)
        padded_size == ((sub_size + 1) \div 2) * 2
        header == {Range(pos, pos + 4), Range(pos + 4, pos + 8)}
    IN  IF pos + 8 + sub_size > Len(data)
        THEN [break |-> TRUE, pos |-> pos, labels |-> acc, reads |-> header]
        ELSE IF sub_id = TagLabl /\ sub_size >= 4
        THEN [break |-> FALSE, pos |-> pos + 8 + padded_size,
              labels |-> Append(acc,
                           Label_of(U32LE(data, pos + 8),
                                    Slice(data, pos + 12,
                                          pos + 12 + (sub_size - 4)))),
              reads |-> header \cup {Range(pos + 8, pos + 12),
                                     Range(pos + 12, pos + 12 + (sub_size - 4))}]
        ELSE [break |-> FALSE, pos |-> pos + 8 + padded_size, labels |-> acc,
              reads |-> header]

\* The payloads walked: those of the list calls, whole and without their
\* last byte (the pad byte, when the last sub-record has an odd size)
WalkPayloads ==
    {c.list_chunk.data : c \in ListCalls}
      \cup {SubSeq(c.list_chunk.data, 1, Len(c.list_chunk.data) - 1) :
               c \in {d \in ListCalls : d.list_chunk.data # <<>>}}

InitWalk ==
    /\ Idle
    /\ pc = "walk_enter"
    /\ args \in [data : WalkPayloads]
    /\ ret = [pos |-> 0, labels |-> <<>>, reads |-> {}]
    /\ ret2 = None

\* if data.len() < 4 || &data[0..4] != b"adtl" { return Ok(labels); }
\* let mut pos = 4;
Walk_enter ==
    /\ pc = "walk_enter"
    /\ IF Len(args.data) < 4
       THEN /\ pc' = "walk_done"
            /\ UNCHANGED ret
       ELSE /\ pc' = IF Slice(args.data, 0, 4) # TagAdtl THEN "walk_done"
                     ELSE "walk_loop"
            /\ ret' = [pos |-> IF Slice(args.data, 0, 4) # TagAdtl THEN 0
                               ELSE 4,
                       labels |-> <<>>, reads |-> {Range(0, 4)}]
    /\ UNCHANGED <<args, ret2>>
    /\ UNCHANGED <<file_path, chunks, sample_rate, labels, sampler_data,
                   cue_points, result, outcome, error>>

\* One iteration of while pos + 8 <= data.len() { .. }
Walk_step ==
    /\ pc = "walk_loop"
    /\ ret.pos + 8 <= Len(args.data)
    /\ LET s == list_step(args.data, ret.pos, ret.labels) IN
       /\ ret' = [pos |-> s.pos, labels |-> s.labels,
                  reads |-> ret.reads \cup s.reads]
       /\ pc' = IF s.break THEN "walk_done" ELSE "walk_loop"
    /\ UNCHANGED <<args, ret2>>
    /\ UNCHANGED <<file_path, chunks, sample_rate, labels, sampler_data,
                   cue_points, result, outcome, error>>

\* The loop condition failing: Ok(labels)
Walk_exit ==
    /\ pc = "walk_loop"
    /\ ret.pos + 8 > Len(args.data)
    /\ pc' = "walk_done"
    /\ UNCHANGED <<args, ret, ret2>>
    /\ UNCHANGED <<file_path, chunks, sample_rate, labels, sampler_data,
                   cue_points, result, outcome, error>>

NextWalk ==
    \/ Walk_enter
    \/ Walk_step
    \/ Walk_exit

SpecWalk == InitWalk /\ [][NextWalk]_vars

\* The function runs to its return once called
SpecWalkFair == SpecWalk /\ WF_vars(NextWalk)

\* The declared size of the sub-record at the cursor, and that size rounded
\* up to even
DeclaredSize == U32LE(args.data, ret.pos + 4)
DeclaredSizePadded == DeclaredSize + (DeclaredSize % 2)

\* Every byte range indexed so far lies inside the payload
ReadsInBounds ==
    \A r \in ret.reads : 0 <= r.from /\ r.from <= r.to /\ r.to <= Len(args.data)

\* The loop is entered at cursor 4; an iteration that does not leave the
\* loop moves the cursor forward by 8 plus the padded declared size; the
\* loop is left when fewer than 8 bytes remain or the declared size overruns
WalkAdvances ==
    /\ (pc = "walk_enter" /\ pc' = "walk_loop") => ret'.pos = 4
    /\ (pc = "walk_loop" /\ pc' = "walk_loop") =>
          /\ ret.pos + 8 <= Len(args.data)
          /\ ret.pos + 8 + DeclaredSize <= Len(args.data)
          /\ ret'.pos = ret.pos + 8 + DeclaredSizePadded
          /\ ret'.pos >= ret.pos + 8
    /\ (pc = "walk_loop" /\ pc' = "walk_done") =>
          \/ ret.pos + 8 > Len(args.data)
          \/ ret.pos + 8 + DeclaredSize > Len(args.data)
    /\ (/\ pc = "walk_loop"
        /\ \/ ret.pos + 8 > Len(args.data)
           \/ ret.pos + 8 + DeclaredSize > Len(args.data))
          => pc' = "walk_done"

\* C25: the sub-record walk ends for every payload and never indexes
\* outside it: the cursor starts at 4 and each iteration that stays in the
\* loop adds 8 plus the declared size rounded up to even; the tag, size,
\* identifier and name ranges read lie inside the payload; the loop is left
\* as soon as fewer than 8 bytes remain or a declared size overruns, also
\* when an odd-sized last sub-record has no pad byte after it; the labels
\* at the end are those of parse_list_chunk_for_labels.
C25_WalkEndsInBounds ==
    /\ [](ReadsInBounds
           /\ (pc = "walk_done" =>
                  ret.labels
                     = parse_list_chunk_for_labels(Chunk("List", args.data))))
    /\ [][WalkAdvances]_vars
    /\ <>(pc = "walk_done")

\* An odd-sized last sub-record without its pad byte: the cursor ends one
\* past the end of the payload
C25_Witness ==
    /\ pc = "walk_done"
    /\ Len(args.data) = 4 + (8 + 6) + (8 + 5)
    /\ ret.pos = Len(args.data) + 1
    /\ Len(ret.labels) = 2
    /\ Range(4 + 14 + 12, 4 + 14 + 13) \in ret.reads

====
